---- MODULE Spec2Model ----
(***************************************************************************)
(* Model of the infrastructure primitives of the RepairShopr -> Onyx       *)
(* bridge: the bounded LRU cache with TTL (cache.py), the token bucket     *)
(* rate limiter (rate_limiter.py) and the checkpoint store (state.py).     *)
(*                                                                         *)
(* Each primitive has its own specification over its own variables:        *)
(*   SpecCache    concurrent callers of one BoundedLRUCache                *)
(*   SpecLRU      one caller issuing set/get, with the call history kept   *)
(*   SpecLimiter  concurrent callers of one TokenBucketRateLimiter         *)
(*   SpecState    StateManager.save / load over a file system that the     *)
(*                process can stop in at any point                         *)
(***************************************************************************)
EXTENDS Integers, Sequences, FiniteSets, TLC

\* ------------------------------------------------------------------ bounds
NumKeys == 2
MaxSizeBound == 2
MaxTime == 2
MaxCalls == 3
MaxDepth == 2
MaxLruCalls == 5

MaxCapacity == 2
MaxAcquires == 3
DumpChunks == 2
MaxSaves == 2
MaxErrors == 2
MaxDocs == 1
MaxNeedsCalls == 2
NeedsMaxTime == 27
MaxRuns == 2
MaxBatchSize == 2
MaxIterId == 2
MaxPageLen == 2
MaxIterPages == 2
MaxFailures == 102
MaxRetries == 3
MaxDocId == 12
MaxBuilt == 2
MaxHour == 2
TzOffset == 1
SyncMaxTime == 1
\* self.errors[-100:]
ErrorsKept == 100
LimMaxTime == 4
\* 1 / self.rate in clock ticks: the time one token takes to refill
TicksPerToken == 2

\* round(hit_rate, 4): hit_rate is reported in 1/10000
HitRateScale == 10000

\* float("inf"): the expiry time of an entry of a cache with no TTL
Inf == 9999

Threads == {"t1", "t2"}
Keys == 1 .. NumKeys
Vals == {"a", "b"}
\* the value a concurrent caller stores, and its loader loads: one of its own
ValOf(t) == IF t = "t1" THEN "a" ELSE "b"
None == "None"
Free == "free"
\* the configured ttl_seconds values: 0 (no expiry) and 1 clock tick
TtlChoices == {0, 1}

VARIABLES
    now,            \* time.monotonic(), in clock ticks
    \* ---- BoundedLRUCache
    max_size,       \* self.max_size
    ttl_seconds,    \* self.ttl_seconds
    cache,          \* self._cache: the OrderedDict as a sequence, LRU entry first
    hits,           \* self._hits
    misses,         \* self._misses
    evictions,      \* self._evictions
    cacheLock,      \* self._lock: Free or the thread holding it
    stk,            \* per thread: the stack of cache calls in progress
    ret,            \* per thread: what its last outermost cache call returned
    calls,          \* number of cache calls started by callers and loaders
    hist,           \* history of the completed get/set bodies (kept when recording)
    recording,      \* whether hist is kept (SpecLRU)
    \* ---- TokenBucketRateLimiter (tokens are counted in 1/TicksPerToken of a token)
    capacity,       \* self.capacity
    tokens,         \* self._tokens * TicksPerToken
    last_refill,    \* self._last_refill
    limLock,        \* self._lock: Free or the thread holding it
    lim,            \* per thread: its acquire / available_tokens call in progress
    lret,           \* per thread: what its last call returned
    requests_made,      \* self.stats.requests_made
    requests_throttled, \* self.stats.requests_throttled
    total_wait_time,    \* self.stats.total_wait_time, in ticks
    acquires,       \* number of limiter calls started
    throttled_calls,    \* number of acquire calls that have slept at least once
    true_calls,         \* number of acquire calls that have returned True
    \* ---- StateManager and the file system under it
    cp,             \* the SyncCheckpoint the process holds in memory
    files,          \* the state file and its .tmp sibling: Absent or their content
    spc,            \* where the process is: idle, in save, just loaded, or down
    loadedFrom,     \* how the last load() got its result
    saved,          \* the checkpoint of the last save() that completed
    crashedIn,      \* where in save() the process last stopped
    state_file,     \* StateManager.state_file, a path <<stem, suffix>>
    loadedAfter,    \* what the process had done last when load() was called
    saves,          \* number of save() calls started
    \* ---- StateManager.needs_full_sync
    max_age_hours,  \* the max_age_hours argument
    needs_log,      \* the calls made: <<time of the call, what it returned>>
    \* ---- RepairShoprConnector and the source it reads
    include,        \* include_customers, include_assets, include_tickets, include_invoices
    batch_size,     \* self.batch_size
    source,         \* per kind, the pages the API answers with
    gen,            \* the generator of load_from_state / poll_source: where it stands
    emitted,        \* <<kind, id>> of every document handed to the consumer so far
    emittedRun,     \* the same, for the run that is going on
    skipped,        \* <<kind, id>> of every record filtered out or failed to build
    unsaved,        \* batches handed over since the last save that succeeded
    saveFailed,     \* a save of the run that is going on has raised
    resume,         \* the checkpoint on disk when the run that is going on began
    interrupted,    \* how the last run stopped short: "no", "early" (before
                    \* mark_complete) or "late" (in the save after it)
    runs,           \* number of runs started
    traversed,      \* the kinds whose pagination loop ended in the run going on
    batches,        \* <<kind, batch>> of every batch handed over in that run
    built,          \* per kind, the ids of the documents built in that run
    \* --- client.py: one call of iter_all_tickets / _customers / _assets
    seen_ids,       \* the seen_ids argument: [given, ids]
    since,          \* the since argument: a datetime or None
    fetch_comments, \* the fetch_comments argument (tickets)
    it,             \* the locals of the generator and where it stands
    seen,           \* the set the generator tests and adds to
    yielded,        \* the ids yielded so far, in order
    passed,         \* the ids passed over because they were in seen
    requests,       \* the page requests made so far: [page, count, total_pages]
    \* --- client.py: one call of _make_request
    max_retries,    \* self.max_retries
    rq,             \* where the call stands: attempt number, exception, counters
    attempts,       \* what each attempt of the call met, in order
    \* --- document_builder.py
    doc_log         \* the documents built so far: [kind, id, doc]

cacheVars == <<max_size, ttl_seconds, cache, hits, misses, evictions,
               cacheLock, stk, ret, calls, hist, recording>>

limCalls == <<throttled_calls, true_calls>>

limVars == <<capacity, tokens, last_refill, limLock, lim, lret, requests_made,
             requests_throttled, total_wait_time, acquires, limCalls>>

stateVars == <<cp, files, spc, loadedFrom, saved, crashedIn, state_file,
               loadedAfter, saves>>

needsVars == <<max_age_hours, needs_log>>

connVars == <<include, batch_size, source, gen, emitted, emittedRun, skipped,
              unsaved, saveFailed, resume, interrupted, runs, traversed,
              batches, built>>

iterVars == <<seen_ids, since, fetch_comments, it, seen, yielded, passed,
              requests>>

requestVars == <<max_retries, rq, attempts>>

builderVars == <<doc_log>>

otherThanCache == <<limVars, stateVars, needsVars, connVars, iterVars, requestVars, builderVars>>

otherThanLimiter == <<cacheVars, stateVars, needsVars, connVars, iterVars, requestVars, builderVars>>

otherThanState == <<now, cacheVars, limVars, needsVars, connVars, iterVars, requestVars, builderVars>>

vars == <<now, cacheVars, limVars, stateVars, needsVars, connVars, iterVars, requestVars, builderVars>>

\* the acquire(timeout) arguments tried, in clock ticks, beside timeout=None
Timeouts == {0, 1, 3}

\* a thread with no limiter call in progress. The fields of a call: where it is
\* (pc), acquire or available_tokens (op), whether it has a deadline (timed),
\* wait_time (wait), when its sleep ends (wake), the requests_throttled value
\* it read (seen), what available_tokens returned (avail); and for the claims:
\* how often it slept (slept), and requests_made and the time when it last ran
\* the refill-and-check cycle (rank, at)
IdleCall == [pc |-> "idle", op |-> "none", timed |-> FALSE, deadline |-> 0,
             wait |-> 0, wake |-> 0, seen |-> 0, avail |-> 0,
             slept |-> 0, rank |-> 0, at |-> 0]

\* ------------------------------------------------------- cache: helpers
CacheKeys(c) == {c[i].key : i \in 1 .. Len(c)}

Lookup(c, k) == c[CHOOSE i \in 1 .. Len(c) : c[i].key = k]

\* del self._cache[key]
Remove(c, k) == SelectSeq(c, LAMBDA e : e.key # k)

\* the mutant of MoveToEnd: the access order is not refreshed
MoveToEndNoop(c, k) == c

\* self._cache.move_to_end(key)
MoveToEnd(c, k) == Append(Remove(c, k), Lookup(c, k))

\* the mutant of Expired: an entry never expires
ExpiredNever(e, t) == FALSE

\* self.ttl_seconds > 0 and time.monotonic() > entry.expires_at
Expired(e, t) == ttl_seconds > 0 /\ t > e.expires_at

\* time.monotonic() + self.ttl_seconds if self.ttl_seconds > 0 else float("inf")
ExpiresAt(t) == IF ttl_seconds > 0 THEN t + ttl_seconds ELSE Inf

RECURSIVE PopCount(_)
\* how many times the body of `while len(self._cache) >= self.max_size` runs
PopCount(c) == IF Len(c) >= max_size THEN 1 + PopCount(Tail(c)) ELSE 0

\* the mutant of EvictLRU: evicts only when above capacity (> for >=)
EvictOffByOne(c) == IF Len(c) > max_size THEN Tail(c) ELSE c

\* while len(self._cache) >= self.max_size: self._cache.popitem(last=False)
EvictLRU(c) == SubSeq(c, PopCount(c) + 1, Len(c))

\* the mutant of WithoutKey: the entry of the key set is left in place
WithoutKeyKept(c, k) == c

\* if key in self._cache: del self._cache[key]
WithoutKey(c, k) == IF k \in CacheKeys(c) THEN Remove(c, k) ELSE c

\* the mutant of Unlock: the with block never gives the lock back
UnlockKept(t) == t

\* leaving `with self._lock`: the owner of the lock afterwards
Unlock(t) == Free

Top(t) == stk[t][Len(stk[t])]

Frame(op, k, v, pc, at) == [op |-> op, key |-> k, val |-> v, pc |-> pc, at |-> at]

SetTop(s, f) == [s EXCEPT ![Len(s)] = f]

\* get_or_load after `value = self.get(key)` returned r; __contains__ likewise
AfterGet(f, r) ==
    IF f.op = "contains"
    THEN [f EXCEPT !.pc = "ret", !.val = IF r # None THEN "True" ELSE "False"]
    ELSE IF r # None THEN [f EXCEPT !.pc = "ret", !.val = r]
                     ELSE [f EXCEPT !.pc = "loader"]

\* A frame's caller takes the value r the frame returned.
Resume(f, r) ==
    CASE f.pc = "wait_get" -> AfterGet(f, r)
      [] f.pc = "wait_set" -> [f EXCEPT !.pc = "ret"]
      [] OTHER -> f   \* a call the loader made: the loader goes on

RECURSIVE Unwind(_, _)
\* The top frame of stack s returns r: the frames below run on until one of them
\* has to wait (for the lock or for its loader); the result is the stack left
\* and, when no frame is left, the value the outermost call returned.
Unwind(s, r) ==
    IF Len(s) = 1
    THEN [stk |-> <<>>, done |-> TRUE, val |-> r]
    ELSE LET n == Len(s)
             f == Resume(s[n - 1], r)
             below == SetTop(SubSeq(s, 1, n - 1), f)
         IN  IF f.pc = "ret" THEN Unwind(below, f.val)
                             ELSE [stk |-> below, done |-> FALSE, val |-> None]

Return(t, r) ==
    LET u == Unwind(stk[t], r)
    IN  /\ stk' = [stk EXCEPT ![t] = u.stk]
        /\ ret' = [ret EXCEPT ![t] = IF u.done THEN u.val ELSE @]

Log(e) == hist' = IF recording THEN Append(hist, e) ELSE hist

\* A thread may start a call when it is idle, or from inside a running loader.
CanCall(t) ==
    /\ calls < (IF recording THEN MaxLruCalls ELSE MaxCalls)
    /\ \/ stk[t] = <<>>
       \/ /\ stk[t] # <<>>
          /\ Len(stk[t]) < MaxDepth
          /\ Top(t).op = "get_or_load"
          /\ Top(t).pc = "loader"

\* ------------------------------------------------------- cache: actions
\* A method whose first statement is `with self._lock` starts when it gets the
\* lock: nothing of the call is visible before that.

\* cache.get(key) is called and enters `with self._lock`
CallGet(t, k) ==
    /\ CanCall(t)
    /\ cacheLock = Free
    /\ cacheLock' = t
    /\ stk' = [stk EXCEPT ![t] = Append(@, Frame("get", k, None, "locked", 0))]
    /\ calls' = calls + 1
    /\ UNCHANGED <<now, max_size, ttl_seconds, cache, hits, misses, evictions,
                   ret, hist, recording, otherThanCache>>

\* cache.get_or_load(key, loader) is called: its self.get(key) enters the lock
CallGetOrLoad(t, k) ==
    /\ CanCall(t)
    /\ cacheLock = Free
    /\ cacheLock' = t
    /\ stk' = [stk EXCEPT ![t] = @ \o <<Frame("get_or_load", k, None, "wait_get", 0),
                                        Frame("get", k, None, "locked", 0)>>]
    /\ calls' = calls + 1
    /\ UNCHANGED <<now, max_size, ttl_seconds, cache, hits, misses, evictions,
                   ret, hist, recording, otherThanCache>>

\* `key in cache` is evaluated: its self.get(key) enters the lock
CallContains(t, k) ==
    /\ CanCall(t)
    /\ cacheLock = Free
    /\ cacheLock' = t
    /\ stk' = [stk EXCEPT ![t] = @ \o <<Frame("contains", k, None, "wait_get", 0),
                                        Frame("get", k, None, "locked", 0)>>]
    /\ calls' = calls + 1
    /\ UNCHANGED <<now, max_size, ttl_seconds, cache, hits, misses, evictions,
                   ret, hist, recording, otherThanCache>>

\* cache.invalidate(key) is called and enters `with self._lock`
CallInvalidate(t, k) ==
    /\ CanCall(t)
    /\ cacheLock = Free
    /\ cacheLock' = t
    /\ stk' = [stk EXCEPT ![t] = Append(@, Frame("invalidate", k, None, "locked", 0))]
    /\ calls' = calls + 1
    /\ UNCHANGED <<now, max_size, ttl_seconds, cache, hits, misses, evictions,
                   ret, hist, recording, otherThanCache>>

\* cache.clear() is called and enters `with self._lock`
CallClear(t) ==
    /\ CanCall(t)
    /\ cacheLock = Free
    /\ cacheLock' = t
    /\ stk' = [stk EXCEPT ![t] = Append(@, Frame("clear", 0, None, "locked", 0))]
    /\ calls' = calls + 1
    /\ UNCHANGED <<now, max_size, ttl_seconds, cache, hits, misses, evictions,
                   ret, hist, recording, otherThanCache>>

\* cache.set(key, value) is called: expires_at is computed before the lock is taken
CallSet(t, k, v) ==
    /\ CanCall(t)
    /\ stk' = [stk EXCEPT ![t] = Append(@, Frame("set", k, v, "lock", ExpiresAt(now)))]
    /\ calls' = calls + 1
    /\ UNCHANGED <<now, max_size, ttl_seconds, cache, hits, misses, evictions,
                   cacheLock, ret, hist, recording, otherThanCache>>

\* cache.cleanup_expired() is called: now is read before the lock is taken
CallCleanupExpired(t) ==
    /\ CanCall(t)
    /\ stk' = [stk EXCEPT ![t] = Append(@, Frame("cleanup_expired", 0, None, "lock", now))]
    /\ calls' = calls + 1
    /\ UNCHANGED <<now, max_size, ttl_seconds, cache, hits, misses, evictions,
                   cacheLock, ret, hist, recording, otherThanCache>>

\* set and cleanup_expired enter `with self._lock`
AcquireLock(t) ==
    /\ stk[t] # <<>>
    /\ Top(t).pc = "lock"
    /\ cacheLock = Free
    /\ cacheLock' = t
    /\ stk' = [stk EXCEPT ![t] = SetTop(@, [Top(t) EXCEPT !.pc = "locked"])]
    /\ UNCHANGED <<now, max_size, ttl_seconds, cache, hits, misses, evictions,
                   ret, calls, hist, recording, otherThanCache>>

Locked(t, op) ==
    /\ stk[t] # <<>>
    /\ Top(t).op = op
    /\ Top(t).pc = "locked"
    /\ cacheLock = t

\* the body of get, under the lock
GetBody(t) ==
    /\ Locked(t, "get")
    /\ LET k == Top(t).key
       IN  IF k \notin CacheKeys(cache)
           THEN /\ misses' = misses + 1
                /\ Return(t, None)
                /\ Log([op |-> "get", key |-> k, res |-> "absent"])
                /\ UNCHANGED <<cache, hits>>
           ELSE IF Expired(Lookup(cache, k), now)
           THEN /\ cache' = Remove(cache, k)
                /\ misses' = misses + 1
                /\ Return(t, None)
                /\ Log([op |-> "get", key |-> k, res |-> "expired"])
                /\ UNCHANGED hits
           ELSE /\ cache' = MoveToEnd(cache, k)
                /\ hits' = hits + 1
                /\ Return(t, Lookup(cache, k).value)
                /\ Log([op |-> "get", key |-> k, res |-> "hit"])
                /\ UNCHANGED misses
    /\ cacheLock' = Unlock(t)
    /\ UNCHANGED <<now, max_size, ttl_seconds, evictions, calls, recording,
                   otherThanCache>>

\* the body of set, under the lock
SetBody(t) ==
    /\ Locked(t, "set")
    /\ LET f == Top(t)
           c1 == WithoutKey(cache, f.key)
           c2 == EvictLRU(c1)
       IN  /\ cache' = Append(c2, [key |-> f.key, value |-> f.val,
                                    expires_at |-> f.at])
           /\ evictions' = evictions + (Len(c1) - Len(c2))
           /\ Log([op |-> "set", key |-> f.key, res |-> "stored"])
    /\ Return(t, None)
    /\ cacheLock' = Unlock(t)
    /\ UNCHANGED <<now, max_size, ttl_seconds, hits, misses, calls, recording,
                   otherThanCache>>

\* the body of invalidate, under the lock
InvalidateBody(t) ==
    /\ Locked(t, "invalidate")
    /\ LET k == Top(t).key
       IN  IF k \in CacheKeys(cache)
           THEN cache' = Remove(cache, k) /\ Return(t, "True")
           ELSE UNCHANGED cache /\ Return(t, "False")
    /\ Log([op |-> "invalidate", key |-> Top(t).key, res |-> "done"])
    /\ cacheLock' = Unlock(t)
    /\ UNCHANGED <<now, max_size, ttl_seconds, hits, misses, evictions, calls,
                   recording, otherThanCache>>

\* the body of clear, under the lock
ClearBody(t) ==
    /\ Locked(t, "clear")
    /\ cache' = <<>>
    /\ Return(t, None)
    /\ Log([op |-> "clear", key |-> 0, res |-> "done"])
    /\ cacheLock' = Unlock(t)
    /\ UNCHANGED <<now, max_size, ttl_seconds, hits, misses, evictions, calls,
                   recording, otherThanCache>>

\* the body of cleanup_expired, under the lock: `now` was read at the call
CleanupExpiredBody(t) ==
    /\ Locked(t, "cleanup_expired")
    /\ cache' = SelectSeq(cache, LAMBDA e : ~Expired(e, Top(t).at))
    /\ Return(t, None)
    /\ Log([op |-> "cleanup_expired", key |-> 0, res |-> "done"])
    /\ cacheLock' = Unlock(t)
    /\ UNCHANGED <<now, max_size, ttl_seconds, hits, misses, evictions, calls,
                   recording, otherThanCache>>

\* value = loader(): the loader returns v; a value that is not None is then set,
\* None is returned as it is
LoaderReturns(t, v) ==
    /\ stk[t] # <<>>
    /\ Top(t).op = "get_or_load"
    /\ Top(t).pc = "loader"
    /\ IF v # None
       THEN /\ stk' = [stk EXCEPT ![t] =
                         Append(SetTop(@, [Top(t) EXCEPT !.pc = "wait_set", !.val = v]),
                                Frame("set", Top(t).key, v, "lock", ExpiresAt(now)))]
            /\ UNCHANGED ret
       ELSE Return(t, None)
    /\ UNCHANGED <<now, max_size, ttl_seconds, cache, hits, misses, evictions,
                   cacheLock, calls, hist, recording, otherThanCache>>

\* the loader raises: the exception leaves every call of the thread
LoaderRaises(t) ==
    /\ stk[t] # <<>>
    /\ Top(t).op = "get_or_load"
    /\ Top(t).pc = "loader"
    /\ stk' = [stk EXCEPT ![t] = <<>>]
    /\ ret' = [ret EXCEPT ![t] = "raised"]
    /\ UNCHANGED <<now, max_size, ttl_seconds, cache, hits, misses, evictions,
                   cacheLock, calls, hist, recording, otherThanCache>>

\* the monotonic clock advances
Tick ==
    /\ now < MaxTime
    /\ now' = now + 1
    /\ UNCHANGED <<cacheVars, limVars, stateVars, needsVars, connVars, iterVars, requestVars, builderVars>>

InitCache ==
    /\ max_size \in 1 .. MaxSizeBound
    /\ ttl_seconds \in TtlChoices
    /\ cache = <<>>
    /\ hits = 0
    /\ misses = 0
    /\ evictions = 0
    /\ cacheLock = Free
    /\ stk = [t \in Threads |-> <<>>]
    /\ ret = [t \in Threads |-> None]
    /\ calls = 0
    /\ hist = <<>>

\* ------------------------------------------------ rate limiter: helpers
Min(a, b) == IF a <= b THEN a ELSE b

\* the mutant of Refilled: the refill is not clamped to the capacity
RefilledUnclamped(tok, elapsed) == tok + elapsed

\* min(self.capacity, self._tokens + elapsed * self.rate)
Refilled(tok, elapsed) == Min(capacity * TicksPerToken, tok + elapsed)

\* the mutant of Consume: a successful acquire takes no token
ConsumeNothing(tok) == tok

\* self._tokens -= 1.0
Consume(tok) == tok - TicksPerToken

\* the mutant of RefillStamp: _last_refill is never moved forward
RefillStampStale(t) == last_refill

\* self._last_refill = now
RefillStamp(t) == t

\* wait_time = (1.0 - self._tokens) / self.rate
WaitTime(tok) == TicksPerToken - tok

\* the mutant of DeadlinePassed: a deadline that is just reached does not count
DeadlineNotYet(remaining) == remaining < 0

\* if remaining <= 0: return False
DeadlinePassed(remaining) == remaining <= 0

\* the mutant of LeaveLock: the caller keeps the lock while it sleeps
KeepLock(t) == t

\* the end of the `with self._lock` block, reached before the sleep
LeaveLock(t) == Free

\* ------------------------------------------------ rate limiter: actions
\* acquire() with timeout=None is called and enters `with self._lock`
CallAcquire(t) ==
    /\ lim[t].pc = "idle"
    /\ acquires < MaxAcquires
    /\ limLock = Free
    /\ limLock' = t
    /\ lim' = [lim EXCEPT ![t] = [IdleCall EXCEPT !.pc = "locked", !.op = "acquire"]]
    /\ acquires' = acquires + 1
    /\ UNCHANGED <<now, capacity, tokens, last_refill, lret, requests_made,
                   requests_throttled, total_wait_time, limCalls,
                   otherThanLimiter>>

\* acquire(timeout) is called: deadline = time.monotonic() + timeout
CallAcquireTimeout(t, timeout) ==
    /\ lim[t].pc = "idle"
    /\ acquires < MaxAcquires
    /\ lim' = [lim EXCEPT ![t] = [IdleCall EXCEPT !.pc = "lock", !.op = "acquire",
                                     !.timed = TRUE, !.deadline = now + timeout]]
    /\ acquires' = acquires + 1
    /\ UNCHANGED <<now, capacity, tokens, last_refill, limLock, lret, requests_made,
                   requests_throttled, total_wait_time, limCalls,
                   otherThanLimiter>>

\* the available_tokens property is read and enters `with self._lock`
CallAvailableTokens(t) ==
    /\ lim[t].pc = "idle"
    /\ acquires < MaxAcquires
    /\ limLock = Free
    /\ limLock' = t
    /\ lim' = [lim EXCEPT ![t] = [IdleCall EXCEPT !.pc = "locked", !.op = "available"]]
    /\ acquires' = acquires + 1
    /\ UNCHANGED <<now, capacity, tokens, last_refill, lret, requests_made,
                   requests_throttled, total_wait_time, limCalls,
                   otherThanLimiter>>

\* the top of the acquire loop: entering `with self._lock`
LimAcquireLock(t) ==
    /\ lim[t].pc = "lock"
    /\ limLock = Free
    /\ limLock' = t
    /\ lim' = [lim EXCEPT ![t].pc = "locked"]
    /\ UNCHANGED <<now, capacity, tokens, last_refill, lret, requests_made,
                   requests_throttled, total_wait_time, acquires, limCalls,
                   otherThanLimiter>>

\* under the lock: _refill(), then a token is taken and True returned, or
\* wait_time is computed. Without a deadline the lock is left here; with one,
\* the deadline is checked next, still under the lock.
AcquireBody(t) ==
    /\ lim[t].pc = "locked"
    /\ lim[t].op = "acquire"
    /\ limLock = t
    /\ last_refill' = RefillStamp(now)
    /\ LET tok == Refilled(tokens, now - last_refill)
           c == [lim[t] EXCEPT !.rank = requests_made, !.at = now]
       IN  IF tok >= TicksPerToken
           THEN /\ tokens' = Consume(tok)
                /\ requests_made' = requests_made + 1
                /\ true_calls' = true_calls + 1
                /\ lret' = [lret EXCEPT ![t] = "True"]
                /\ lim' = [lim EXCEPT ![t] = [c EXCEPT !.pc = "idle"]]
                /\ limLock' = Free
           ELSE /\ tokens' = tok
                /\ lim' = [lim EXCEPT ![t] =
                              [c EXCEPT !.wait = WaitTime(tok),
                                        !.pc = IF c.timed THEN "deadline" ELSE "throttle"]]
                /\ limLock' = IF c.timed THEN t ELSE LeaveLock(t)
                /\ UNCHANGED <<requests_made, true_calls, lret>>
    /\ UNCHANGED <<now, capacity, requests_throttled, total_wait_time, acquires,
                   throttled_calls, otherThanLimiter>>

\* under the lock: remaining = deadline - time.monotonic(); False when it is
\* <= 0, else wait_time = min(wait_time, remaining)
DeadlineCheck(t) ==
    /\ lim[t].pc = "deadline"
    /\ limLock = t
    /\ LET remaining == lim[t].deadline - now
       IN  IF DeadlinePassed(remaining)
           THEN /\ lret' = [lret EXCEPT ![t] = "False"]
                /\ lim' = [lim EXCEPT ![t].pc = "idle"]
           ELSE /\ lim' = [lim EXCEPT ![t].pc = "throttle",
                                      ![t].wait = Min(lim[t].wait, remaining)]
                /\ UNCHANGED lret
    /\ limLock' = LeaveLock(t)
    /\ UNCHANGED <<now, capacity, tokens, last_refill, requests_made,
                   requests_throttled, total_wait_time, acquires, limCalls,
                   otherThanLimiter>>

\* outside the lock: `self.stats.requests_throttled += 1` reads the counter
ThrottleRead(t) ==
    /\ lim[t].pc = "throttle"
    /\ lim' = [lim EXCEPT ![t].pc = "stat", ![t].seen = requests_throttled]
    /\ UNCHANGED <<now, capacity, tokens, last_refill, limLock, lret, requests_made,
                   requests_throttled, total_wait_time, acquires, limCalls,
                   otherThanLimiter>>

\* outside the lock: the counter is written back, total_wait_time is added to,
\* and time.sleep(wait_time) starts
ThrottleWrite(t) ==
    /\ lim[t].pc = "stat"
    /\ requests_throttled' = lim[t].seen + 1
    /\ total_wait_time' = total_wait_time + lim[t].wait
    /\ lim' = [lim EXCEPT ![t].pc = "sleep", ![t].wake = now + lim[t].wait,
                          ![t].slept = @ + 1]
    /\ throttled_calls' = IF lim[t].slept = 0 THEN throttled_calls + 1
                          ELSE throttled_calls
    /\ UNCHANGED <<now, capacity, tokens, last_refill, limLock, lret, requests_made,
                   acquires, true_calls, otherThanLimiter>>

\* time.sleep(wait_time) returns, no earlier than asked: back to the loop's top
Wake(t) ==
    /\ lim[t].pc = "sleep"
    /\ now >= lim[t].wake
    /\ lim' = [lim EXCEPT ![t].pc = "lock"]
    /\ UNCHANGED <<now, capacity, tokens, last_refill, limLock, lret, requests_made,
                   requests_throttled, total_wait_time, acquires, limCalls,
                   otherThanLimiter>>

\* available_tokens under the lock: _refill(), return self._tokens
AvailableTokensBody(t) ==
    /\ lim[t].pc = "locked"
    /\ lim[t].op = "available"
    /\ limLock = t
    /\ last_refill' = RefillStamp(now)
    /\ tokens' = Refilled(tokens, now - last_refill)
    /\ lim' = [lim EXCEPT ![t].pc = "idle", ![t].avail = tokens']
    /\ limLock' = Free
    /\ UNCHANGED <<now, capacity, lret, requests_made, requests_throttled,
                   total_wait_time, acquires, limCalls,
                   otherThanLimiter>>

InitLimiter ==
    /\ capacity \in 1 .. MaxCapacity
    /\ tokens = capacity * TicksPerToken
    /\ last_refill = 0
    /\ limLock = Free
    /\ lim = [t \in Threads |-> IdleCall]
    /\ lret = [t \in Threads |-> None]
    /\ requests_made = 0
    /\ requests_throttled = 0
    /\ total_wait_time = 0
    /\ acquires = 0
    /\ throttled_calls = 0
    /\ true_calls = 0

\* ------------------------------------------------ checkpoint store: values
\* An optional datetime is <<>> (None) or <<ts, tz>>, tz "utc" for an aware and
\* "naive" for a naive datetime; its ISO string is <<"iso", ts, tz>>.
NoDate == <<>>
DateVals == {NoDate, <<1, "utc">>, <<2, "naive">>}
SomeDates == {NoDate, <<1, "utc">>}

\* the progress of one entity kind: page, seen ids, complete
KindFresh == [page |-> 0, seen_ids |-> {}, complete |-> FALSE]
KindVals == {KindFresh, [page |-> 1, seen_ids |-> {3}, complete |-> TRUE]}
TicketVals == {KindFresh, [page |-> 2, seen_ids |-> {1, 2}, complete |-> FALSE]}

RECURSIVE ErrorLists(_)
ErrorLists(n) ==
    IF n = 0 THEN {<<>>}
    ELSE ErrorLists(n - 1) \cup
         {Append(l, "e") : l \in {x \in ErrorLists(n - 1) : Len(x) = n - 1}}

\* SyncCheckpoint(): the dataclass defaults
FreshCheckpoint ==
    [last_full_sync |-> NoDate, last_poll |-> NoDate,
     tickets |-> KindFresh, customers |-> KindFresh, assets |-> KindFresh,
     invoices |-> KindFresh,
     sync_started_at |-> NoDate, sync_type |-> "", documents_processed |-> 0,
     errors |-> <<>>]

\* the well-formed checkpoints tried: the tickets vary on their own, the other
\* kinds together
Checkpoints ==
    {[last_full_sync |-> d, last_poll |-> p,
      tickets |-> t, customers |-> k, assets |-> k, invoices |-> k,
      sync_started_at |-> st, sync_type |-> ty, documents_processed |-> 0,
      errors |-> e] :
        d \in DateVals, p \in SomeDates, st \in SomeDates, t \in TicketVals,
        k \in KindVals,
        ty \in {"", "full"}, e \in ErrorLists(MaxErrors)}

\* the checkpoint in the state file a run may find when it starts
OldCheckpoint ==
    [FreshCheckpoint EXCEPT !.last_full_sync = <<2, "naive">>,
                            !.invoices = [page |-> 4, seen_ids |-> {8, 9},
                                          complete |-> TRUE],
                            !.sync_type = "poll", !.documents_processed = 1,
                            !.errors = <<"old">>]

\* datetime.isoformat()
IsoFormat(d) == <<"iso", d[1], d[2]>>

\* datetime.fromisoformat(val) accepts val: an ISO string, <<"iso", ts, tz>>
IsIso(val) == val[1] = "iso"

\* datetime.fromisoformat(val)
FromIsoFormat(str) == <<str[2], str[3]>>

\* x.isoformat() if x else None
IsoOrNone(d) == IF d # NoDate THEN IsoFormat(d) ELSE <<>>

\* parse_dt: fromisoformat(val) if val else None
ParseDt(val) == IF val # <<>> THEN FromIsoFormat(val) ELSE NoDate

RECURSIVE ListOf(_)
\* list(a_set): its elements in some order
ListOf(S) ==
    IF S = {} THEN <<>>
    ELSE LET x == CHOOSE y \in S : \A z \in S : y <= z
         IN  <<x>> \o ListOf(S \ {x})

\* set(a_list)
SetOf(l) == {l[i] : i \in 1 .. Len(l)}

\* a_list[-n:]
LastN(l, n) == IF Len(l) <= n THEN l ELSE SubSeq(l, Len(l) - n + 1, Len(l))

\* the mutant of KeptErrors: only the last error is written
KeptErrorsOne(errs) == LastN(errs, 1)

\* self.errors[-100:]
KeptErrors(errs) == LastN(errs, ErrorsKept)

\* set(data.get("<kind>_seen_ids", []))
SeenIdsOf(d, kind) == SetOf(d[kind].seen_ids)

KindToDict(k) == [page |-> k.page, seen_ids |-> ListOf(k.seen_ids),
                  complete |-> k.complete]

KindFromDict(d, kind) == [page |-> d[kind].page, seen_ids |-> SeenIdsOf(d, kind),
                          complete |-> d[kind].complete]

\* SyncCheckpoint.to_dict
ToDict(c) ==
    [last_full_sync |-> IsoOrNone(c.last_full_sync),
     last_poll |-> IsoOrNone(c.last_poll),
     tickets |-> KindToDict(c.tickets),
     customers |-> KindToDict(c.customers),
     assets |-> KindToDict(c.assets),
     invoices |-> KindToDict(c.invoices),
     sync_started_at |-> IsoOrNone(c.sync_started_at),
     sync_type |-> c.sync_type,
     documents_processed |-> c.documents_processed,
     errors |-> KeptErrors(c.errors)]

\* data.get(key, default)
Get(d, key, default) == IF key \in DOMAIN d THEN d[key] ELSE default

\* the keys of a kind are there together or not at all
KindOrDefault(d, kind) ==
    IF kind \in DOMAIN d THEN KindFromDict(d, kind) ELSE KindFresh

\* a parsed JSON document that is not an object is [array |-> ...]
IsObject(d) == "array" \notin DOMAIN d

DateKeys == {"last_full_sync", "last_poll", "sync_started_at"}

\* from_dict raises: data has no get (AttributeError), or a timestamp is a
\* non-empty string that fromisoformat rejects (ValueError)
FromDictRaises(d) ==
    \/ ~IsObject(d)
    \/ \E k \in DateKeys : Get(d, k, <<>>) # <<>> /\ ~IsIso(Get(d, k, <<>>))

\* SyncCheckpoint.from_dict
FromDict(d) ==
    [last_full_sync |-> ParseDt(Get(d, "last_full_sync", <<>>)),
     last_poll |-> ParseDt(Get(d, "last_poll", <<>>)),
     tickets |-> KindOrDefault(d, "tickets"),
     customers |-> KindOrDefault(d, "customers"),
     assets |-> KindOrDefault(d, "assets"),
     invoices |-> KindOrDefault(d, "invoices"),
     sync_started_at |-> ParseDt(Get(d, "sync_started_at", <<>>)),
     sync_type |-> Get(d, "sync_type", ""),
     documents_processed |-> Get(d, "documents_processed", 0),
     errors |-> Get(d, "errors", <<>>)]

\* ------------------------------------------------ checkpoint store: files
\* A file is Absent or [json, len]: the first len of the DumpChunks chunks that
\* json.dump writes for the dict json. json.load parses a file that has them all.
Absent == [json |-> <<>>, len |-> 0 - 1]

FileOf(c) == [json |-> ToDict(c), len |-> DumpChunks]

Complete(f) == f.len = DumpChunks

\* the paths a StateManager is given; the default is ~/.onyx-rs-bridge/state.json
StateFiles == {<<"state", ".json">>, <<"state", ".tmp">>}

\* Path.with_suffix: the same stem with the suffix replaced
WithSuffix(path, suffix) == <<path[1], suffix>>

Paths == StateFiles \cup {WithSuffix(path, ".tmp") : path \in StateFiles}

\* temp_file = self.state_file.with_suffix(".tmp")
TempFile == WithSuffix(state_file, ".tmp")

\* ------------------------------------------------ checkpoint store: actions
Running == spc \in {"idle", "saved", "loaded"}

InSave == {"writing", "written"}

\* save(): open(temp_file, "w") creates or truncates the temporary file
SaveOpen ==
    /\ Running
    /\ saves < MaxSaves
    /\ saves' = saves + 1
    /\ files' = [files EXCEPT ![TempFile] = [json |-> ToDict(cp), len |-> 0]]
    /\ spc' = "writing"
    /\ UNCHANGED <<cp, loadedFrom, saved, crashedIn, state_file, loadedAfter,
                   otherThanState>>

\* save(): json.dump writes the next chunk; the file is closed after the last
SaveWrite ==
    /\ spc = "writing"
    /\ files' = [files EXCEPT ![TempFile].len = @ + 1]
    /\ spc' = IF files[TempFile].len + 1 = DumpChunks THEN "written" ELSE "writing"
    /\ UNCHANGED <<cp, loadedFrom, saved, crashedIn, state_file, loadedAfter,
                   saves, otherThanState>>

\* save(): temp_file.rename(self.state_file) replaces the state file in one step;
\* renaming a file to itself does nothing
SaveRename ==
    /\ spc = "written"
    /\ files' = IF TempFile = state_file THEN files
                ELSE [files EXCEPT ![state_file] = files[TempFile],
                                   ![TempFile] = Absent]
    /\ saved' = cp
    /\ spc' = "saved"
    /\ UNCHANGED <<cp, loadedFrom, crashedIn, state_file, loadedAfter, saves,
                   otherThanState>>

\* save(): writing or renaming fails; the error is logged and raised again
SaveRaises ==
    /\ spc \in InSave
    /\ spc' = "raised"
    /\ UNCHANGED <<cp, files, loadedFrom, saved, crashedIn, state_file,
                   loadedAfter, saves, otherThanState>>

\* the process stops, wherever it is; what it held in memory is gone
Crash ==
    /\ spc # "down"
    /\ crashedIn' = spc
    /\ spc' = "down"
    /\ cp' = FreshCheckpoint
    /\ UNCHANGED <<files, loadedFrom, saved, state_file, loadedAfter, saves,
                   otherThanState>>

\* the mutant of OnLoadFailure: the stale checkpoint is returned
OnLoadFailureStale == OldCheckpoint

\* except Exception: return SyncCheckpoint()
OnLoadFailure == FreshCheckpoint

\* load(), by a process that runs or by one started after a stop
Load ==
    /\ spc \in {"idle", "saved", "loaded", "down", "raised"}
    /\ LET f == files[state_file]
       IN  IF f = Absent
           THEN cp' = FreshCheckpoint /\ loadedFrom' = "absent"
           ELSE IF ~Complete(f)
           THEN cp' = OnLoadFailure /\ loadedFrom' = "corrupt"
           ELSE IF FromDictRaises(f.json)
           THEN cp' = OnLoadFailure /\ loadedFrom' = "invalid"
           ELSE cp' = FromDict(f.json) /\ loadedFrom' = "file"
    /\ loadedAfter' = spc
    /\ spc' = "loaded"
    /\ UNCHANGED <<files, saved, crashedIn, state_file, saves, otherThanState>>

\* the sync goes on between two saves: self.checkpoint.documents_processed += 1
Progress ==
    /\ Running
    /\ saves < MaxSaves
    /\ cp.documents_processed < MaxDocs
    /\ cp' = [cp EXCEPT !.documents_processed = @ + 1]
    /\ spc' = "idle"
    /\ UNCHANGED <<files, loadedFrom, saved, crashedIn, state_file,
                   loadedAfter, saves, otherThanState>>

InitState ==
    /\ cp \in Checkpoints
    /\ state_file \in StateFiles
    /\ \/ files = [path \in Paths |-> Absent] /\ saved = FreshCheckpoint
       \/ /\ files = [path \in Paths |->
                        IF path = state_file THEN FileOf(OldCheckpoint) ELSE Absent]
          /\ saved = OldCheckpoint
    /\ spc = "idle"
    /\ loadedFrom = "none"
    /\ loadedAfter = "none"
    /\ crashedIn = "none"
    /\ saves = 0

StateUnused ==
    /\ InitState
    /\ cp = FreshCheckpoint
    /\ state_file = <<"state", ".json">>
    /\ files[state_file] = Absent

\* needs_full_sync(checkpoint, max_age_hours: int = 24)
DefaultMaxAge == 24

NeedsUnused ==
    /\ max_age_hours = DefaultMaxAge
    /\ needs_log = <<>>

\* ------------------------------------------------ connector: values
\* the entity kinds, in the order load_from_state and poll_source take them
KindOrder == <<"customers", "assets", "tickets", "invoices">>

Kinds == {KindOrder[i] : i \in 1 .. Len(KindOrder)}

\* no generator has been created
NoGen == [pc |-> "idle", run |-> "none", restart |-> FALSE, k |-> 1, page |-> 1,
          items |-> <<>>, total |-> 0, idx |-> 1, batch |-> <<>>]

ConnectorIdle ==
    /\ gen = NoGen
    /\ emitted = {}
    /\ emittedRun = {}
    /\ skipped = {}
    /\ unsaved = 0
    /\ saveFailed = FALSE
    /\ resume = FreshCheckpoint
    /\ interrupted = "no"
    /\ runs = 0
    /\ traversed = {}
    /\ batches = <<>>
    /\ built = [k \in Kinds |-> <<>>]

\* iter_all_*: the generator before its first step
NoIter == [pc |-> "called", page |-> 1, items |-> <<>>, total |-> 0, idx |-> 1]

\* None where a datetime is expected
NoTime == [set |-> FALSE, wall |-> 0, aware |-> FALSE, off |-> 0]

\* no iterator was called on its own
IterUnused ==
    /\ requests = <<>>
    /\ seen_ids = [given |-> FALSE, ids |-> {}]
    /\ since = NoTime
    /\ fetch_comments = FALSE
    /\ it = [NoIter EXCEPT !.pc = "done"]
    /\ seen = {}
    /\ yielded = <<>>
    /\ passed = {}

\* no document is built on its own
BuilderUnused == doc_log = <<>>

\* max_retries: int = 4
DefaultMaxRetries == 4

\* _make_request before it is called
NoRequest == [pc |-> "idle", attempt |-> 0, exc |-> "none", request_count |-> 0,
              error_count |-> 0]

\* no request is made on its own
RequestUnused ==
    /\ max_retries = DefaultMaxRetries
    /\ rq = NoRequest
    /\ attempts = <<>>

\* the defaults of RepairShoprConnector.__init__, and an API with no records
ConnectorUnused ==
    /\ include = [k \in Kinds |-> k # "invoices"]
    /\ batch_size = 1
    /\ source = [k \in Kinds |-> <<>>]
    /\ ConnectorIdle

\* a component no caller uses: its configuration is fixed and it never moves
CacheUnused ==
    /\ InitCache
    /\ max_size = 1
    /\ ttl_seconds = 0
    /\ recording = FALSE

LimiterUnused ==
    /\ InitLimiter
    /\ capacity = 1

InitCacheSpec ==
    /\ now = 0
    /\ InitCache
    /\ recording = FALSE
    /\ LimiterUnused
    /\ StateUnused
    /\ NeedsUnused
    /\ ConnectorUnused
    /\ IterUnused
    /\ RequestUnused
    /\ BuilderUnused

NextCache ==
    \/ \E t \in Threads, k \in Keys : CallGet(t, k)
    \/ \E t \in Threads, k \in Keys : CallSet(t, k, ValOf(t))
    \/ \E t \in Threads, k \in Keys : CallGetOrLoad(t, k)
    \/ \E t \in Threads, k \in Keys : CallInvalidate(t, k)
    \/ \E t \in Threads : CallClear(t)
    \/ \E t \in Threads, k \in Keys : CallContains(t, k)
    \/ \E t \in Threads : CallCleanupExpired(t)
    \/ \E t \in Threads : AcquireLock(t)
    \/ \E t \in Threads : GetBody(t)
    \/ \E t \in Threads : SetBody(t)
    \/ \E t \in Threads : InvalidateBody(t)
    \/ \E t \in Threads : ClearBody(t)
    \/ \E t \in Threads : CleanupExpiredBody(t)
    \/ \E t \in Threads : \E v \in {ValOf(t), None} : LoaderReturns(t, v)
    \/ \E t \in Threads : LoaderRaises(t)
    \/ Tick

SpecCache == InitCacheSpec /\ [][NextCache]_vars

\* ---- one caller inserts the distinct keys 1, 2, ... in this order, with gets
\* of any key in between; the history of the calls is kept
LruKeys == 1 .. MaxSizeBound + 1

IsSet(e) == e.op = "set"

InitLRU ==
    /\ now = 0
    /\ InitCache
    /\ recording = TRUE
    /\ LimiterUnused
    /\ StateUnused
    /\ NeedsUnused
    /\ ConnectorUnused
    /\ IterUnused
    /\ RequestUnused
    /\ BuilderUnused

NextLRU ==
    \/ /\ stk["t1"] = <<>>
       /\ Len(SelectSeq(hist, IsSet)) <= max_size
       /\ \E v \in Vals : CallSet("t1", Len(SelectSeq(hist, IsSet)) + 1, v)
    \/ \E k \in LruKeys : CallGet("t1", k)
    \/ AcquireLock("t1")
    \/ GetBody("t1")
    \/ SetBody("t1")
    \/ Tick

SpecLRU == InitLRU /\ [][NextLRU]_vars

\* ------------------------------------------------------------ cache: claims
SetKeys(h) == {h[i].key : i \in {j \in 1 .. Len(h) : h[j].op = "set"}}

\* the history is that of the scenario, and its last set has just run: max_size + 1
\* sets of distinct keys into the empty cache, and otherwise only gets
LruScenarioDone ==
    /\ recording
    /\ hist # <<>>
    /\ hist[Len(hist)].op = "set"
    /\ \A i \in 1 .. Len(hist) : hist[i].op \in {"set", "get"}
    /\ \A i, j \in 1 .. Len(hist) :
          (i # j /\ hist[i].op = "set" /\ hist[j].op = "set") => hist[i].key # hist[j].key
    /\ Cardinality(SetKeys(hist)) = max_size + 1

FirstKey == hist[CHOOSE i \in 1 .. Len(hist) :
                    hist[i].op = "set" /\ \A j \in 1 .. i - 1 : hist[j].op # "set"].key

\* the keys inserted before the last set, other than the first
OtherKeys == SetKeys(SubSeq(hist, 1, Len(hist) - 1)) \ {FirstKey}

Uses(k) == {i \in 1 .. Len(hist) - 1 :
               /\ hist[i].key = k
               /\ hist[i].op = "set" \/ hist[i].res = "hit"}

\* when key k was last used (inserted or hit by a get) before the last set
LastUse(k) == CHOOSE i \in Uses(k) : \A j \in Uses(k) : j <= i

LruOf(ks) == CHOOSE k \in ks : \A j \in ks : LastUse(k) <= LastUse(j)

Evicted == SetKeys(hist) \ CacheKeys(cache)

GetOnFirst(results) ==
    \E i \in 1 .. Len(hist) :
        hist[i].op = "get" /\ hist[i].key = FirstKey /\ hist[i].res \in results

NoExpiredGet == \A i \in 1 .. Len(hist) : hist[i].res # "expired"

\* C2 as stated: after max_size + 1 distinct keys were set into an empty cache,
\* exactly the first-inserted key is evicted when no get touched it, and when a
\* get hit it before the last set it is retained and the least recently used of
\* the other keys is evicted.
C2_AsStated ==
    LruScenarioDone =>
        /\ ~GetOnFirst({"hit", "expired"}) => Evicted = {FirstKey}
        /\ GetOnFirst({"hit"}) =>
              /\ FirstKey \in CacheKeys(cache)
              /\ OtherKeys # {}
              /\ Evicted = {LruOf(OtherKeys)}

\* C2 amended: in the same scenario, when no get found an expired entry, the last
\* set evicts exactly the first-inserted key if no get hit it; and if a get hit
\* the first-inserted key after the last use (insertion or hit) of some other
\* inserted key, the first-inserted key is retained and exactly the least
\* recently used of the other keys is evicted.
C2_LruEviction ==
    (LruScenarioDone /\ NoExpiredGet) =>
        /\ ~GetOnFirst({"hit"}) => Evicted = {FirstKey}
        /\ (/\ GetOnFirst({"hit"})
            /\ \E k \in OtherKeys : LastUse(k) < LastUse(FirstKey)) =>
              /\ FirstKey \in CacheKeys(cache)
              /\ Evicted = {LruOf(OtherKeys)}

\* the first key was hit after the second was inserted, and the third insert
\* evicted the second key
C2_Witness ==
    /\ LruScenarioDone
    /\ NoExpiredGet
    /\ max_size = 2
    /\ GetOnFirst({"hit"})
    /\ FirstKey \in CacheKeys(cache)
    /\ Evicted = {2}

\* C1: the cache never holds more than max_size entries, whatever the callers
\* and their interleaving.
C1_SizeBounded == Len(cache) <= max_size

\* the cache is full and set has evicted to make room
C1_Witness == Len(cache) = max_size /\ evictions > 0 /\ calls = MaxCalls

\* the get body of thread t is about to run on a stored entry that has expired
ExpiredGetDue(t) ==
    /\ Locked(t, "get")
    /\ ttl_seconds > 0
    /\ Top(t).key \in CacheKeys(cache)
    /\ now > Lookup(cache, Top(t).key).expires_at

\* C3: with ttl_seconds > 0, a get on a stored key with now > expires_at returns
\* None, counts one miss and no hit, and removes that entry and no other: the
\* length drops by exactly one.
C3_ExpiredGet ==
    [][\A t \in Threads :
          (ExpiredGetDue(t) /\ GetBody(t)) =>
              /\ ret'[t] = None
              /\ misses' = misses + 1
              /\ hits' = hits
              /\ Len(cache') = Len(cache) - 1
              /\ cache' = Remove(cache, Top(t).key)
              /\ Top(t).key \notin CacheKeys(cache')]_vars

\* a get has just found its entry expired, with another entry stored beside it
C3_Witness ==
    /\ hist # <<>>
    /\ hist[Len(hist)] = [op |-> "get", key |-> 1, res |-> "expired"]
    /\ ret["t1"] = None
    /\ misses = 1
    /\ CacheKeys(cache) = {2}

\* a call in progress can take a step: no caller waits for a lock nobody gives back
CacheProgress ==
    \E t \in Threads :
        \/ AcquireLock(t)
        \/ GetBody(t)
        \/ SetBody(t)
        \/ InvalidateBody(t)
        \/ ClearBody(t)
        \/ CleanupExpiredBody(t)
        \/ LoaderReturns(t, None)

\* C4: a loader never runs while its thread holds the cache lock; whoever holds
\* the lock is inside a locked body, and some call in progress can always move
\* on, loaders that call the cache included.
C4_LoaderOutsideLock ==
    /\ \A t \in Threads :
          /\ (stk[t] # <<>> /\ Top(t).pc = "loader") => cacheLock # t
          /\ cacheLock = t => (stk[t] # <<>> /\ Top(t).pc = "locked")
    /\ (\E t \in Threads : stk[t] # <<>>) => ENABLED CacheProgress

\* a loader is running in one thread, has itself called into the cache and waits
\* for the lock there, while another caller holds the lock
C4_Witness ==
    \E t, u \in Threads :
        /\ t # u
        /\ Len(stk[t]) = 2
        /\ stk[t][1].op = "get_or_load"
        /\ stk[t][1].pc = "loader"
        /\ stk[t][2].pc = "lock"
        /\ cacheLock = u

\* the monotonic clock advances (the limiter is followed over a longer time)
ClockTick ==
    /\ now < LimMaxTime
    /\ now' = now + 1
    /\ UNCHANGED <<cacheVars, limVars, stateVars, needsVars, connVars, iterVars, requestVars, builderVars>>

\* ------------------------------------------------ rate limiter: specification
InitLimiterSpec ==
    /\ now = 0
    /\ InitLimiter
    /\ CacheUnused
    /\ StateUnused
    /\ NeedsUnused
    /\ ConnectorUnused
    /\ IterUnused
    /\ RequestUnused
    /\ BuilderUnused

NextLimiter ==
    \/ \E t \in Threads : CallAcquire(t)
    \/ \E t \in Threads, timeout \in Timeouts : CallAcquireTimeout(t, timeout)
    \/ \E t \in Threads : CallAvailableTokens(t)
    \/ \E t \in Threads : LimAcquireLock(t)
    \/ \E t \in Threads : AcquireBody(t)
    \/ \E t \in Threads : DeadlineCheck(t)
    \/ \E t \in Threads : ThrottleRead(t)
    \/ \E t \in Threads : ThrottleWrite(t)
    \/ \E t \in Threads : Wake(t)
    \/ \E t \in Threads : AvailableTokensBody(t)
    \/ ClockTick

SpecLimiter == InitLimiterSpec /\ [][NextLimiter]_vars

\* ------------------------------------------------ rate limiter: claims
\* C5: 0 <= tokens <= capacity in every reachable state (tokens are counted in
\* 1/TicksPerToken of a token).
C5_TokensInRange == 0 <= tokens /\ tokens <= capacity * TicksPerToken

\* the acquire call of t has run its refill-and-check cycle at least once
Checked(t) ==
    /\ lim[t].op = "acquire"
    /\ lim[t].pc \notin {"lock", "locked"} \/ lim[t].slept > 0

ReturnedTrue(t) == lim[t].op = "acquire" /\ lim[t].pc = "idle" /\ lret[t] = "True"

\* one token was taken from the full bucket, and a refill more than 1/rate later
\* stopped at capacity
C5_Witness ==
    /\ requests_made = 1
    /\ tokens = capacity * TicksPerToken
    /\ \E t, u \in Threads :
          /\ ReturnedTrue(t)
          /\ lim[u].op = "available" /\ lim[u].pc = "idle"
          /\ lim[u].avail = capacity * TicksPerToken
          /\ last_refill - lim[t].at > TicksPerToken

\* C6: with no time elapsed since construction, an acquire that runs while fewer
\* than capacity acquires have succeeded returns True without sleeping; the
\* next one gets no token and has to wait 1/rate (or its remaining timeout, if
\* shorter); and no acquire beyond the first capacity succeeds before 1/rate
\* has elapsed.
C6_BurstThenWait ==
    /\ \A t \in Threads :
          /\ (Checked(t) /\ lim[t].at = 0 /\ lim[t].rank < capacity) =>
                (ReturnedTrue(t) /\ lim[t].slept = 0)
          /\ (Checked(t) /\ lim[t].at = 0 /\ lim[t].rank >= capacity) =>
                /\ ~ReturnedTrue(t)
                /\ lim[t].rank = capacity
                /\ lim[t].wait <= TicksPerToken
                /\ ~lim[t].timed => lim[t].wait = TicksPerToken
          /\ (ReturnedTrue(t) /\ lim[t].rank >= capacity) =>
                lim[t].at >= TicksPerToken
    /\ requests_made > capacity => now >= TicksPerToken

\* the call after the first capacity ones slept once for 1/rate and then got
\* the token refilled meanwhile
C6_Witness ==
    \E t \in Threads :
        /\ capacity = MaxCapacity
        /\ ReturnedTrue(t)
        /\ lim[t].rank = capacity
        /\ lim[t].slept = 1
        /\ lim[t].wait = TicksPerToken
        /\ lim[t].at = TicksPerToken

\* C7: the number of acquires that have returned True by time now is at most
\* capacity + rate * now.
C7_RateBound == requests_made * TicksPerToken <= capacity * TicksPerToken + now

\* the bound is met with equality after the burst and a refill
C7_Witness ==
    /\ now > 0
    /\ requests_made > capacity
    /\ requests_made * TicksPerToken = capacity * TicksPerToken + now
    /\ \A t \in Threads : lim[t].pc = "idle"

\* C8: the deadline check returns False exactly when the deadline is reached; a
\* call that returns False does so in that check, with no token available, and
\* that step changes neither tokens nor requests_made; requests_made changes
\* only in a step that returns True.
C8_TimeoutReturnsFalse ==
    [][/\ \A t \in Threads :
             /\ (lim[t].pc = "deadline" /\ lim'[t].pc # "deadline") =>
                   /\ (now >= lim[t].deadline) <=>
                         (lim'[t].pc = "idle" /\ lret'[t] = "False")
                   /\ (now < lim[t].deadline) => lim'[t].pc = "throttle"
             /\ (lim[t].pc # "idle" /\ lim'[t].pc = "idle" /\ lim[t].op = "acquire"
                   /\ lret'[t] = "False") =>
                   /\ lim[t].pc = "deadline"
                   /\ tokens < TicksPerToken
                   /\ tokens' = tokens
                   /\ requests_made' = requests_made
       /\ requests_made' # requests_made =>
             \E t \in Threads :
                 /\ lim[t].pc = "locked"
                 /\ lim'[t].pc = "idle"
                 /\ lret'[t] = "True"
                 /\ requests_made' = requests_made + 1
                 /\ tokens' = Refilled(tokens, now - last_refill) - TicksPerToken]_vars

\* a call with a timeout slept up to its deadline, found no token and returned
\* False
C8_Witness ==
    \E t \in Threads :
        /\ lim[t].op = "acquire"
        /\ lim[t].timed
        /\ lim[t].pc = "idle"
        /\ lret[t] = "False"
        /\ lim[t].slept = 1
        /\ now = lim[t].deadline
        /\ requests_made = capacity

\* ------------------------------------------------ checkpoint store: specification
InitStateSpec ==
    /\ now = 0
    /\ CacheUnused
    /\ LimiterUnused
    /\ InitState
    /\ NeedsUnused
    /\ ConnectorUnused
    /\ IterUnused
    /\ RequestUnused
    /\ BuilderUnused

NextState ==
    \/ SaveOpen
    \/ SaveWrite
    \/ SaveRename
    \/ SaveRaises
    \/ Crash
    \/ Load
    \/ Progress

SpecState == InitStateSpec /\ [][NextState]_vars

\* the checkpoint exercises every conversion: set timestamps, aware and naive,
\* seen ids for each kind, and errors
RichCheckpoint(c) ==
    /\ c.last_full_sync # NoDate /\ c.last_poll # NoDate
    /\ c.sync_started_at # NoDate
    /\ c.tickets.seen_ids # {} /\ c.customers.seen_ids # {}
    /\ c.assets.seen_ids # {} /\ c.invoices.seen_ids # {}
    /\ Len(c.errors) = MaxErrors
    /\ Len(c.errors) <= ErrorsKept

\* C9: load() called right after save(checkpoint) completed reads the state file
\* and returns a checkpoint equal in every field to the one saved.
C9_RoundTrip ==
    (spc = "loaded" /\ loadedAfter = "saved") =>
        (loadedFrom = "file" /\ cp = saved)

C9_Witness ==
    /\ spc = "loaded" /\ loadedAfter = "saved"
    /\ RichCheckpoint(saved)
    /\ cp = saved

CrashedInSave == spc = "down" /\ crashedIn \in InSave

\* C10: while save() runs and after the process stopped inside it, the state
\* file is absent or holds the whole checkpoint of the last completed save; a
\* load() after such a stop does not find a corrupt file and returns that
\* checkpoint, or a fresh one when there is no file.
C10_AsStated ==
    /\ (spc \in InSave \/ CrashedInSave) =>
          \/ files[state_file] = Absent
          \/ files[state_file] = FileOf(saved)
    /\ (spc = "loaded" /\ loadedAfter = "down" /\ crashedIn \in InSave) =>
          /\ loadedFrom # "corrupt"
          /\ loadedFrom = "file" => cp = saved
          /\ loadedFrom = "absent" => cp = FreshCheckpoint

\* C10, for a state file whose suffix is not ".tmp": the temporary file is another
\* file, and the state file is absent or whole at every point of save().
C10_AtomicUnlessTmp == state_file[2] # ".tmp" => C10_AsStated

\* the process stopped inside the second save() to a state file named *.tmp; the
\* checkpoint of the first save() is gone and load() found a truncated file
C10_Witness ==
    /\ spc = "loaded" /\ loadedAfter = "down" /\ crashedIn \in InSave
    /\ saves = MaxSaves
    /\ RichCheckpoint(saved)
    /\ loadedFrom = "corrupt"
    /\ cp = FreshCheckpoint

\* ------------------------------------------------ checkpoint store: load()
\* what a state file left by something else may hold
GarbageDate == <<"not a date">>

ForeignDocuments ==
    {[array |-> <<1, 2>>],
     [x \in {} |-> 0],
     [ToDict(OldCheckpoint) EXCEPT !.last_full_sync = GarbageDate],
     [sync_started_at |-> GarbageDate],
     [last_full_sync |-> IsoFormat(<<1, "utc">>), sync_type |-> "bogus"],
     ToDict(OldCheckpoint)}

ForeignFiles ==
    {[json |-> d, len |-> DumpChunks] : d \in ForeignDocuments} \cup
    {[json |-> ToDict(OldCheckpoint), len |-> n] : n \in 0 .. DumpChunks - 1} \cup
    {Absent}

StartCheckpoints ==
    {c \in Checkpoints : /\ c.last_full_sync = <<1, "utc">>
                         /\ c.last_poll = NoDate /\ c.sync_started_at = NoDate
                         /\ c.sync_type = "full" /\ c.customers = KindFresh}

InitLoad ==
    /\ cp \in StartCheckpoints
    /\ state_file \in StateFiles
    /\ \E f \in ForeignFiles :
          files = [path \in Paths |-> IF path = state_file THEN f ELSE Absent]
    /\ saved = FreshCheckpoint
    /\ spc = "idle"
    /\ loadedFrom = "none"
    /\ loadedAfter = "none"
    /\ crashedIn = "none"
    /\ saves = 0

InitLoadSpec ==
    /\ now = 0
    /\ CacheUnused
    /\ LimiterUnused
    /\ InitLoad
    /\ NeedsUnused
    /\ ConnectorUnused
    /\ IterUnused
    /\ RequestUnused
    /\ BuilderUnused

SpecLoad == InitLoadSpec /\ [][NextState]_vars

\* load() found a state file it could not use
LoadFailed == loadedFrom \in {"corrupt", "invalid"}

\* C11: load() always returns (no step of it raises); with no state file, and
\* with a state file that json.load or from_dict rejects, the checkpoint it
\* returns is the fresh default SyncCheckpoint.
C11_LoadNeverRaises ==
    /\ [](/\ spc \in {"idle", "saved", "loaded", "down", "raised"} => ENABLED Load
          /\ (spc = "loaded" /\ (loadedFrom = "absent" \/ LoadFailed)) =>
                cp = FreshCheckpoint)
    /\ [][Load => /\ spc' = "loaded"
                  /\ files[state_file] = Absent => loadedFrom' = "absent"
                  /\ (files[state_file] # Absent /\
                      (~Complete(files[state_file]) \/
                       FromDictRaises(files[state_file].json))) => LoadFailed']_vars

C11_Witness ==
    /\ spc = "loaded"
    /\ loadedFrom = "invalid"
    /\ loadedAfter \in {"idle", "down"}
    /\ files[state_file].json # ToDict(FreshCheckpoint)
    /\ cp = FreshCheckpoint

\* ------------------------------------------------ needs_full_sync
\* Times are in hours here: now is datetime.now(timezone.utc), and a timestamp
\* <<ts, tz>> of a checkpoint was taken at hour ts.

\* _is_sync_complete
IsSyncComplete(c) ==
    c.tickets.complete /\ c.customers.complete /\ c.assets.complete

\* datetime.now(timezone.utc) - checkpoint.last_full_sync, in hours
Age(c, t) == t - c.last_full_sync[1]

\* the mutant of AgeExceeds: a full sync is due at max_age_hours already
AgeReaches(age, max_age) == age >= max_age

\* age.total_seconds() > max_age_hours * 3600
AgeExceeds(age, max_age) == age > max_age

\* needs_full_sync: "True", "False", or the exception it raises (an aware
\* datetime minus a naive one)
NeedsFullSync(c, t, max_age) ==
    IF c.last_full_sync = NoDate THEN "True"
    ELSE IF c.sync_started_at # NoDate /\ ~IsSyncComplete(c) THEN "True"
    ELSE IF c.last_full_sync[2] = "naive" THEN "TypeError"
    ELSE IF AgeExceeds(Age(c, t), max_age) THEN "True"
    ELSE "False"

Flags == [tickets : BOOLEAN, customers : BOOLEAN, assets : BOOLEAN,
          invoices : BOOLEAN]

WithFlags(c, f) ==
    [c EXCEPT !.tickets.complete = f.tickets, !.customers.complete = f.customers,
              !.assets.complete = f.assets, !.invoices.complete = f.invoices]

\* the checkpoints needs_full_sync is called with
NeedsCheckpoints ==
    {WithFlags([FreshCheckpoint EXCEPT !.last_full_sync = d,
                                       !.sync_started_at = st], f) :
        d \in {NoDate, <<1, "utc">>, <<1, "naive">>}, st \in SomeDates, f \in Flags}

\* needs_full_sync(checkpoint, max_age_hours) is called
CallNeedsFullSync ==
    /\ Len(needs_log) < MaxNeedsCalls
    /\ needs_log' = Append(needs_log, <<now, NeedsFullSync(cp, now, max_age_hours)>>)
    /\ UNCHANGED <<now, max_age_hours, cacheVars, limVars, stateVars, connVars, iterVars, requestVars, builderVars>>

\* an hour passes
HourPasses ==
    /\ now < NeedsMaxTime
    /\ now' = now + 1
    /\ UNCHANGED <<cacheVars, limVars, stateVars, needsVars, connVars, iterVars, requestVars, builderVars>>

InitNeeds ==
    /\ now = DefaultMaxAge
    /\ CacheUnused
    /\ LimiterUnused
    /\ cp \in NeedsCheckpoints
    /\ state_file = <<"state", ".json">>
    /\ files = [path \in Paths |-> Absent]
    /\ saved = FreshCheckpoint
    /\ spc = "idle"
    /\ loadedFrom = "none"
    /\ loadedAfter = "none"
    /\ crashedIn = "none"
    /\ saves = 0
    /\ max_age_hours \in {1, DefaultMaxAge}
    /\ needs_log = <<>>
    /\ ConnectorUnused
    /\ IterUnused
    /\ RequestUnused
    /\ BuilderUnused

NextNeeds ==
    \/ CallNeedsFullSync
    \/ HourPasses

SpecNeeds == InitNeeds /\ [][NextNeeds]_vars

\* no sync was interrupted: none was started, or the started one is complete in
\* the eyes of needs_full_sync
NotInterrupted(c) == c.sync_started_at = NoDate \/ IsSyncComplete(c)

AllFlags(c) ==
    c.tickets.complete /\ c.customers.complete /\ c.assets.complete
        /\ c.invoices.complete

Aware(c) == c.last_full_sync # NoDate => c.last_full_sync[2] = "utc"

\* C13: needs_full_sync returns true exactly when last_full_sync is unset, or it
\* is older than max_age_hours, or sync_started_at is set and the complete flags
\* of tickets, customers, assets and invoices are not all true (checked for
\* checkpoints whose last_full_sync is unset or timezone-aware).
C13_AsStated ==
    \A i \in 1 .. Len(needs_log) :
        Aware(cp) =>
            /\ needs_log[i][2] \in {"True", "False"}
            /\ needs_log[i][2] = "True" <=>
                  \/ cp.last_full_sync = NoDate
                  \/ (cp.last_full_sync # NoDate
                        /\ Age(cp, needs_log[i][1]) > max_age_hours)
                  \/ (cp.sync_started_at # NoDate /\ ~AllFlags(cp))

\* the same with the flags needs_full_sync reads: tickets, customers, assets
C13_ThreeKinds ==
    \A i \in 1 .. Len(needs_log) :
        Aware(cp) =>
            /\ needs_log[i][2] \in {"True", "False"}
            /\ needs_log[i][2] = "True" <=>
                  \/ cp.last_full_sync = NoDate
                  \/ (cp.last_full_sync # NoDate
                        /\ Age(cp, needs_log[i][1]) > max_age_hours)
                  \/ (cp.sync_started_at # NoDate /\ ~IsSyncComplete(cp))

\* a sync was started and stopped in the invoices; needs_full_sync said no
C13_Witness ==
    /\ cp.last_full_sync = <<1, "utc">>
    /\ cp.sync_started_at # NoDate
    /\ IsSyncComplete(cp) /\ ~cp.invoices.complete
    /\ max_age_hours = DefaultMaxAge
    /\ needs_log = <<<<DefaultMaxAge, "False">>>>

\* C14: without an interrupted sync and with an aware last_full_sync,
\* needs_full_sync returns true iff the age of last_full_sync is more than
\* max_age_hours: with 24, false at 23 hours and true at 25.
C14_AgeThreshold ==
    \A i \in 1 .. Len(needs_log) :
        (NotInterrupted(cp) /\ cp.last_full_sync # NoDate /\ Aware(cp)) =>
            /\ needs_log[i][2] \in {"True", "False"}
            /\ needs_log[i][2] = "True" <=>
                  Age(cp, needs_log[i][1]) > max_age_hours

C14_Witness ==
    /\ NotInterrupted(cp)
    /\ cp.last_full_sync = <<1, "utc">>
    /\ max_age_hours = 24
    /\ needs_log = <<<<1 + 23, "False">>, <<1 + 25, "True">>>>

\* ------------------------------------------------ connector: helpers
\* the mutant of ResetForNewSync that keeps the progress of the kinds
ResetKeepsProgress(c, sync_type, t) ==
    [c EXCEPT !.sync_started_at = <<t, "utc">>, !.sync_type = sync_type,
              !.documents_processed = 0, !.errors = <<>>]

\* the mutant of ResetForNewSync that forgets when the last full sync was
ResetForgetsLast(c, sync_type, t) ==
    [c EXCEPT !.sync_started_at = <<t, "utc">>, !.sync_type = sync_type,
              !.documents_processed = 0, !.errors = <<>>,
              !.tickets = KindFresh, !.customers = KindFresh,
              !.assets = KindFresh, !.invoices = KindFresh,
              !.last_full_sync = NoDate]

\* the mutant of ResetForNewSync: documents_processed is carried over
ResetKeepsCount(c, sync_type, t) ==
    [c EXCEPT !.sync_started_at = <<t, "utc">>, !.sync_type = sync_type,
              !.errors = <<>>,
              !.tickets = KindFresh, !.customers = KindFresh,
              !.assets = KindFresh, !.invoices = KindFresh]

\* SyncCheckpoint.reset_for_new_sync, called at time t
ResetForNewSync(c, sync_type, t) ==
    [c EXCEPT !.sync_started_at = <<t, "utc">>, !.sync_type = sync_type,
              !.documents_processed = 0, !.errors = <<>>,
              !.tickets = KindFresh, !.customers = KindFresh,
              !.assets = KindFresh, !.invoices = KindFresh]

\* the mutant of MarkComplete: both timestamps are stamped
MarkCompleteBoth(c, t) ==
    [c EXCEPT !.last_full_sync = <<t, "utc">>, !.last_poll = <<t, "utc">>]

\* SyncCheckpoint.mark_complete, called at time t
MarkComplete(c, t) ==
    IF c.sync_type = "full" THEN [c EXCEPT !.last_full_sync = <<t, "utc">>]
    ELSE [c EXCEPT !.last_poll = <<t, "utc">>]

\* what StateManager.load() returns for the files fs
LoadedCheckpoint(fs) ==
    LET f == fs[state_file]
    IN  IF f = Absent THEN FreshCheckpoint
        ELSE IF ~Complete(f) \/ FromDictRaises(f.json) THEN OnLoadFailure
        ELSE FromDict(f.json)

\* the files after a StateManager.save(c) that went through
SavedFiles(fs, c) ==
    [path \in Paths |-> IF path = state_file THEN FileOf(c)
                        ELSE IF path = TempFile THEN Absent ELSE fs[path]]

\* get_tickets / get_customers / get_assets / get_invoices (page=page)
Response(kind, page) ==
    IF page <= Len(source[kind]) THEN source[kind][page]
    ELSE [ids |-> <<>>, total_pages |-> Len(source[kind])]

\* the kind the generator is at
Kind == KindOrder[gen.k]

\* f"Ticket {ticket.id}: {e}" and the like
ErrorText(kind, id) == kind \o " " \o ToString(id)

\* a run is going on: the generator was created and has not ended
InRun == gen.pc \notin {"idle", "done", "raised", "down"}

\* how a run that stops with its generator at g stops short
StoppedAt(g) == IF g.pc = "save_final" THEN "late" ELSE "early"

SavePcs == {"save_start", "save_batch", "save_tail", "save_kind", "save_final"}

\* the generator has ended in state pc; its locals are gone
Ended(g, pc) == [NoGen EXCEPT !.pc = pc, !.run = g.run, !.restart = g.restart]

\* where the generator goes on after a _save_checkpoint() that returned
AfterSave(g) ==
    CASE g.pc = "save_start" -> [g EXCEPT !.pc = "preload"]
      [] g.pc = "save_batch" -> [g EXCEPT !.pc = "items", !.idx = @ + 1]
      [] g.pc = "save_tail" -> [g EXCEPT !.pc = "loaded"]
      [] g.pc = "save_kind" -> [g EXCEPT !.pc = "kind", !.k = @ + 1]
      [] g.pc = "save_final" -> Ended(g, "done")

\* the mutant of AfterSaveRaised: the error is swallowed and the run goes on
AfterSaveSwallowed(g) == AfterSave(g)

\* the exception of save() leaves _save_checkpoint and the generator
AfterSaveRaised(g) == Ended(g, "raised")

\* the mutant of BatchFull: the batch is yielded once it is over batch_size
BatchOver(batch, size) == Len(batch) > size

\* if len(batch) >= self.batch_size
BatchFull(batch, size) == Len(batch) >= size

\* the mutant of EmptyPage: an empty page does not end the loop
EmptyPageIgnored(items) == FALSE

\* if not response.tickets: break
EmptyPage(items) == items = <<>>

\* the mutant of LastPage: one page more is asked for
LastPagePassed(page, total_pages) == page > total_pages

\* if page >= response.total_pages: break
LastPage(page, total_pages) == page >= total_pages

\* the mutant of GetTicketComments: not-found is raised like any other error
GetTicketCommentsRaises(rec) ==
    IF rec.fate = "nocomments" THEN "raise" ELSE "comments"

\* get_ticket_comments when the call does not fail otherwise: the comments, or
\* the empty list when the API answers 404 (RepairShoprNotFoundError)
GetTicketComments(rec) ==
    IF rec.fate = "nocomments" THEN "empty" ELSE "comments"

\* A record of the source is [id, fate]: "ok", "bad" (building its document
\* raises), "nocomments" (a ticket whose comments the API answers 404 for) or
\* "out" (a ticket whose status is not in ticket_statuses; for the other kinds
\* a record not updated after since, left out by poll_source only).
\* What happens to a record the iterator has not seen before:
Outcome(kind, run, rec) ==
    CASE kind = "tickets" /\ GetTicketComments(rec) = "raise" -> "raise"
      [] rec.fate = "bad" -> "error"
      [] rec.fate = "out" /\ (kind = "tickets" \/ run = "poll") -> "skip"
      [] OTHER -> "ok"

\* the mutant of SeenAdd: the id is not remembered
SeenAddForgets(s, id) == s

\* seen.add(ticket.id)
SeenAdd(s, id) == s \cup {id}

\* the mutant of Docs: the last document of the batch is not handed over
DocsWithoutLast(kind, batch) == {<<kind, batch[i]>> : i \in 1 .. Len(batch) - 1}

\* the ids of a batch, as <<kind, id>>
Docs(kind, batch) == {<<kind, batch[i]>> : i \in 1 .. Len(batch)}

\* the ids of the records of a page
Ids(items) == {items[i].id : i \in 1 .. Len(items)}

\* ------------------------------------------------ connector: actions
\* what no step of a sync changes
syncFixed == <<include, batch_size, source, state_file, spc, loadedFrom, saved,
               crashedIn, loadedAfter, saves, cacheVars, limVars, needsVars,
               iterVars, requestVars, builderVars>>

\* load_from_state(), up to its first _save_checkpoint()
StartFull ==
    /\ gen.pc \in {"idle", "done", "raised"}
    /\ runs < MaxRuns
    /\ runs' = runs + 1
    /\ cp' = ResetForNewSync(cp, "full", now)
    /\ gen' = [NoGen EXCEPT !.pc = "save_start", !.run = "full",
                            !.restart = (interrupted # "no" /\ gen.run = "full")]
    /\ resume' = LoadedCheckpoint(files)
    /\ interrupted' = "no"
    /\ emittedRun' = {}
    /\ unsaved' = 0
    /\ saveFailed' = FALSE
    /\ traversed' = {}
    /\ batches' = <<>>
    /\ built' = [k \in Kinds |-> <<>>]
    /\ UNCHANGED <<now, files, emitted, skipped, syncFixed>>

\* poll_source(start, end), up to _preload_enrichment_data()
StartPoll ==
    /\ gen.pc \in {"idle", "done", "raised"}
    /\ runs < MaxRuns
    /\ runs' = runs + 1
    /\ cp' = ResetForNewSync(cp, "poll", now)
    /\ gen' = [NoGen EXCEPT !.pc = "preload", !.run = "poll"]
    /\ resume' = LoadedCheckpoint(files)
    /\ interrupted' = "no"
    /\ emittedRun' = {}
    /\ unsaved' = 0
    /\ saveFailed' = FALSE
    /\ traversed' = {}
    /\ batches' = <<>>
    /\ built' = [k \in Kinds |-> <<>>]
    /\ UNCHANGED <<now, files, emitted, skipped, syncFixed>>

\* _save_checkpoint(): StateManager.save returns
SyncSaveOk ==
    /\ gen.pc \in SavePcs
    /\ files' = SavedFiles(files, cp)
    /\ unsaved' = 0
    /\ gen' = AfterSave(gen)
    /\ UNCHANGED <<now, cp, emitted, emittedRun, skipped, saveFailed, resume,
                   interrupted, runs, syncFixed, traversed, batches, built>>

\* _save_checkpoint(): StateManager.save raises
SyncSaveRaises ==
    /\ gen.pc \in SavePcs
    /\ saveFailed' = TRUE
    /\ gen' = AfterSaveRaised(gen)
    /\ interrupted' = IF gen'.pc # "raised" THEN interrupted ELSE StoppedAt(gen)
    /\ UNCHANGED <<now, cp, files, emitted, emittedRun, skipped, unsaved, resume,
                   runs, syncFixed, traversed, batches, built>>

\* the records of a kind the API holds, over all its pages
SourceRecs(kind) ==
    UNION {{source[kind][p].ids[i] : i \in 1 .. Len(source[kind][p].ids)} :
              p \in 1 .. Len(source[kind])}

\* the mutant of PreloadSeenIds: the preload passes the checkpoint's set
PreloadSeenIdsShared(c, kind) == [given |-> TRUE, ids |-> c[kind].seen_ids]

\* the seen_ids argument of self.client.iter_all_customers() and
\* iter_all_assets() in _preload_enrichment_data: none
PreloadSeenIds(c, kind) == [given |-> FALSE, ids |-> {}]

\* the checkpoint after iter_all_<kind>(seen_ids=arg) went through the source:
\* `seen = seen_ids if seen_ids is not None else set()` is the set added to
AfterIteration(c, kind, arg) ==
    IF arg.given THEN [c EXCEPT ![kind].seen_ids = @ \cup {r.id : r \in SourceRecs(kind)}]
    ELSE c

\* _preload_enrichment_data() returns: it has gone through all customers and
\* all assets
Preload ==
    /\ gen.pc = "preload"
    /\ gen' = [gen EXCEPT !.pc = "kind", !.k = 1]
    /\ cp' = LET c == AfterIteration(cp, "customers", PreloadSeenIds(cp, "customers"))
             IN  AfterIteration(c, "assets", PreloadSeenIds(c, "assets"))
    /\ UNCHANGED <<now, files, emitted, emittedRun, skipped, unsaved,
                   saveFailed, resume, interrupted, runs, syncFixed, traversed, batches, built>>

\* a request of the preload or of a page fetch raises
ApiError ==
    /\ gen.pc \in {"preload", "fetch"}
    /\ gen' = Ended(gen, "raised")
    /\ interrupted' = StoppedAt(gen)
    /\ UNCHANGED <<now, cp, files, emitted, emittedRun, skipped, unsaved,
                   saveFailed, resume, runs, syncFixed, traversed, batches, built>>

\* if self.include_<kind> [and not self.checkpoint.<kind>_complete]
EnterKind ==
    /\ gen.pc = "kind"
    /\ gen' = IF gen.k > Len(KindOrder) THEN [gen EXCEPT !.pc = "mark"]
              ELSE IF include[Kind] /\ (gen.run = "poll" \/ ~cp[Kind].complete)
              THEN [gen EXCEPT !.pc = "fetch", !.page = 1, !.batch = <<>>]
              ELSE [gen EXCEPT !.k = @ + 1]
    /\ UNCHANGED <<now, cp, files, emitted, emittedRun, skipped, unsaved,
                   saveFailed, resume, interrupted, runs, syncFixed, traversed, batches, built>>

\* iter_all_<kind>: the next page is fetched
FetchPage ==
    /\ gen.pc = "fetch"
    /\ LET r == Response(Kind, gen.page)
       IN  /\ gen' = IF EmptyPage(r.ids) THEN [gen EXCEPT !.pc = "tail"]
                     ELSE [gen EXCEPT !.pc = "items", !.items = r.ids,
                                      !.total = r.total_pages, !.idx = 1]
           /\ traversed' = IF EmptyPage(r.ids) THEN traversed \cup {Kind}
                           ELSE traversed
    /\ UNCHANGED <<now, cp, files, emitted, emittedRun, skipped, unsaved,
                   saveFailed, resume, interrupted, runs, syncFixed, batches,
                   built>>

\* iter_all_<kind>: the page is through
PageDone ==
    /\ gen.pc = "items"
    /\ gen.idx > Len(gen.items)
    /\ gen' = IF LastPage(gen.page, gen.total) THEN [gen EXCEPT !.pc = "tail"]
              ELSE [gen EXCEPT !.pc = "fetch", !.page = @ + 1]
    /\ traversed' = IF LastPage(gen.page, gen.total) THEN traversed \cup {Kind}
                    ELSE traversed
    /\ UNCHANGED <<now, cp, files, emitted, emittedRun, skipped, unsaved,
                   saveFailed, resume, interrupted, runs, syncFixed, batches,
                   built>>

\* iter_all_<kind>: a record whose id is in seen is passed over
SeenRecord ==
    /\ gen.pc = "items"
    /\ gen.idx <= Len(gen.items)
    /\ gen.items[gen.idx].id \in cp[Kind].seen_ids
    /\ gen' = [gen EXCEPT !.idx = @ + 1]
    /\ UNCHANGED <<now, cp, files, emitted, emittedRun, skipped, unsaved,
                   saveFailed, resume, interrupted, runs, syncFixed, traversed, batches, built>>

\* iter_all_<kind> adds the id of a new record to seen; the record is left out
\* by the since filter, or (a ticket) its comments are fetched, or the call for
\* them raises; a record that reaches the loader is left out by the status
\* filter, or its document is built, and the batch is yielded once it holds
\* batch_size documents
NewRecord ==
    /\ gen.pc = "items"
    /\ gen.idx <= Len(gen.items)
    /\ gen.items[gen.idx].id \notin cp[Kind].seen_ids
    /\ LET rec == gen.items[gen.idx]
           id == rec.id
           marked == [cp EXCEPT ![Kind].seen_ids = SeenAdd(@, id)]
           o == Outcome(Kind, gen.run, rec)
           batch == IF o = "ok" THEN Append(gen.batch, id) ELSE gen.batch
           full == o \in {"ok", "error"} /\ BatchFull(batch, batch_size)
       IN  IF o = "raise"
           THEN /\ cp' = marked
                /\ gen' = Ended(gen, "raised")
                /\ interrupted' = StoppedAt(gen)
                /\ UNCHANGED <<skipped, emitted, emittedRun, unsaved, batches,
                               built>>
           ELSE /\ cp' = CASE o = "ok" ->
                               [marked EXCEPT !.documents_processed = @ + 1]
                           [] o = "error" ->
                               [marked EXCEPT
                                   !.errors = Append(@, ErrorText(Kind, id))]
                           [] OTHER -> marked
                /\ skipped' = IF o \in {"skip", "error"}
                              THEN skipped \cup {<<Kind, id>>} ELSE skipped
                /\ gen' = IF full THEN [gen EXCEPT !.pc = "yielded", !.batch = batch]
                          ELSE [gen EXCEPT !.idx = @ + 1, !.batch = batch]
                /\ emitted' = IF full THEN emitted \cup Docs(Kind, batch)
                              ELSE emitted
                /\ emittedRun' = IF full THEN emittedRun \cup Docs(Kind, batch)
                                 ELSE emittedRun
                /\ unsaved' = IF full THEN unsaved + 1 ELSE unsaved
                /\ batches' = IF full THEN Append(batches, <<Kind, batch>>)
                              ELSE batches
                /\ built' = IF o = "ok" THEN [built EXCEPT ![Kind] = Append(@, id)]
                            ELSE built
                /\ interrupted' = interrupted
    /\ UNCHANGED <<now, files, saveFailed, resume, runs, syncFixed, traversed>>

\* iter_all_tickets adds the id of a new ticket to seen, and get_ticket_comments
\* raises an error other than not-found
CommentsError ==
    /\ gen.pc = "items"
    /\ Kind = "tickets"
    /\ gen.idx <= Len(gen.items)
    /\ gen.items[gen.idx].id \notin cp[Kind].seen_ids
    /\ cp' = [cp EXCEPT ![Kind].seen_ids = SeenAdd(@, gen.items[gen.idx].id)]
    /\ gen' = Ended(gen, "raised")
    /\ interrupted' = StoppedAt(gen)
    /\ UNCHANGED <<now, files, emitted, emittedRun, skipped, unsaved, saveFailed,
                   resume, runs, syncFixed, traversed, batches, built>>

\* the consumer asks for the next batch after a full one: batch = []
NextBatch ==
    /\ gen.pc = "yielded"
    /\ gen' = [gen EXCEPT !.pc = "save_batch", !.batch = <<>>]
    /\ UNCHANGED <<now, cp, files, emitted, emittedRun, skipped, unsaved,
                   saveFailed, resume, interrupted, runs, syncFixed, traversed, batches, built>>

\* the iterator is exhausted: if batch: yield batch
LastBatch ==
    /\ gen.pc = "tail"
    /\ IF gen.batch # <<>>
       THEN /\ gen' = [gen EXCEPT !.pc = "yielded_tail"]
            /\ emitted' = emitted \cup Docs(Kind, gen.batch)
            /\ emittedRun' = emittedRun \cup Docs(Kind, gen.batch)
            /\ unsaved' = unsaved + 1
            /\ batches' = Append(batches, <<Kind, gen.batch>>)
       ELSE /\ gen' = [gen EXCEPT !.pc = "loaded"]
            /\ UNCHANGED <<emitted, emittedRun, unsaved, batches>>
    /\ UNCHANGED <<now, cp, files, skipped, saveFailed, resume, interrupted, runs,
                   syncFixed, traversed, built>>

\* the consumer asks for the next batch after the last one of a kind; only
\* _load_tickets saves here
AfterLastBatch ==
    /\ gen.pc = "yielded_tail"
    /\ gen' = [gen EXCEPT !.pc = IF Kind = "tickets" THEN "save_tail" ELSE "loaded",
                          !.batch = <<>>]
    /\ UNCHANGED <<now, cp, files, emitted, emittedRun, skipped, unsaved,
                   saveFailed, resume, interrupted, runs, syncFixed, traversed, batches, built>>

\* the loader has returned: load_from_state sets <kind>_complete and saves,
\* poll_source goes to the next kind
KindLoaded ==
    /\ gen.pc = "loaded"
    /\ IF gen.run = "full"
       THEN /\ cp' = [cp EXCEPT ![Kind].complete = TRUE]
            /\ gen' = [gen EXCEPT !.pc = "save_kind"]
       ELSE /\ cp' = cp
            /\ gen' = [gen EXCEPT !.pc = "kind", !.k = @ + 1]
    /\ UNCHANGED <<now, files, emitted, emittedRun, skipped, unsaved, saveFailed,
                   resume, interrupted, runs, syncFixed, traversed, batches, built>>

\* self.checkpoint.mark_complete(), before the last _save_checkpoint()
Mark ==
    /\ gen.pc = "mark"
    /\ cp' = MarkComplete(cp, now)
    /\ gen' = [gen EXCEPT !.pc = "save_final"]
    /\ UNCHANGED <<now, files, emitted, emittedRun, skipped, unsaved, saveFailed,
                   resume, interrupted, runs, syncFixed, traversed, batches, built>>

\* the process stops, wherever it is; the checkpoint in memory is gone
ProcessStops ==
    /\ gen.pc # "down"
    /\ gen' = Ended(gen, "down")
    /\ cp' = FreshCheckpoint
    /\ interrupted' = IF InRun THEN StoppedAt(gen) ELSE interrupted
    /\ UNCHANGED <<now, files, emitted, emittedRun, skipped, unsaved, saveFailed,
                   resume, runs, syncFixed, traversed, batches, built>>

\* a new process: load_credentials() loads the checkpoint
ProcessStarts ==
    /\ gen.pc = "down"
    /\ gen' = Ended(gen, "idle")
    /\ cp' = LoadedCheckpoint(files)
    /\ UNCHANGED <<now, files, emitted, emittedRun, skipped, unsaved, saveFailed,
                   resume, interrupted, runs, syncFixed, traversed, batches, built>>

\* an hour passes after a run
TimePasses ==
    /\ gen.pc = "done"
    /\ now < SyncMaxTime
    /\ now' = now + 1
    /\ UNCHANGED <<cp, files, gen, emitted, emittedRun, skipped, unsaved,
                   saveFailed, resume, interrupted, runs, syncFixed, traversed, batches, built>>

\* ------------------------------------------------ connector: specification
Page(items, total_pages) == [ids |-> items, total_pages |-> total_pages]

Rec(id, fate) == [id |-> id, fate |-> fate]

\* what the API holds, for the fates f of the records: one customer, one asset,
\* one invoice, and two pages of three tickets, the second overlapping the first
SourceWith(f) ==
    [k \in Kinds |->
        CASE k = "customers" -> <<Page(<<Rec(1, f.customers)>>, 1)>>
          [] k = "assets" -> <<Page(<<Rec(1, f.assets)>>, 1)>>
          [] k = "tickets" -> <<Page(<<Rec(1, f.first)>>, 2),
                                Page(<<Rec(1, f.first), Rec(2, f.second),
                                       Rec(3, f.third)>>, 2)>>
          [] k = "invoices" -> <<Page(<<Rec(1, f.invoices)>>, 1)>>]

SyncSources ==
    {SourceWith([customers |-> "ok", assets |-> "ok", first |-> "ok",
                 second |-> "nocomments", third |-> "ok", invoices |-> "ok"]),
     SourceWith([customers |-> "out", assets |-> "ok", first |-> "ok",
                 second |-> "bad", third |-> "ok", invoices |-> "bad"]),
     SourceWith([customers |-> "bad", assets |-> "out", first |-> "out",
                 second |-> "ok", third |-> "bad", invoices |-> "ok"])}

InitSync ==
    /\ now = 0
    /\ CacheUnused
    /\ LimiterUnused
    /\ StateUnused
    /\ max_age_hours = 1
    /\ needs_log = <<>>
    /\ IterUnused
    /\ RequestUnused
    /\ BuilderUnused
    /\ include \in [Kinds -> BOOLEAN]
    /\ batch_size \in 1 .. MaxBatchSize
    /\ source \in SyncSources
    /\ ConnectorIdle

NextSync ==
    \/ StartFull
    \/ StartPoll
    \/ SyncSaveOk
    \/ SyncSaveRaises
    \/ Preload
    \/ ApiError
    \/ EnterKind
    \/ FetchPage
    \/ PageDone
    \/ SeenRecord
    \/ NewRecord
    \/ CommentsError
    \/ NextBatch
    \/ LastBatch
    \/ AfterLastBatch
    \/ KindLoaded
    \/ Mark
    \/ ProcessStops
    \/ ProcessStarts
    \/ TimePasses

SpecSync == InitSync /\ [][NextSync]_vars

\* ------------------------------------------------ connector: claims
\* C12: a save that fails ends the run: the exception leaves the generator, which
\* neither goes on nor hands over another batch.
C12_SaveFailurePropagates ==
    /\ [](saveFailed => gen.pc \in {"raised", "down", "idle"})
    /\ [][SyncSaveRaises => gen'.pc = "raised"]_vars
    /\ [][saveFailed /\ saveFailed' => emitted' = emitted]_vars

C12_Witness ==
    /\ saveFailed
    /\ gen.pc = "raised"
    /\ gen.run = "poll"
    /\ unsaved = 1
    /\ emittedRun # {}

\* what needs_full_sync answers on the checkpoint a new process loads from disk
NeedsOnDisk == NeedsFullSync(LoadedCheckpoint(files), now, max_age_hours)

\* the last run stopped before it reached mark_complete
StoppedEarly == ~InRun /\ gen.pc # "done" /\ interrupted = "early"

\* the last full sync on disk is younger than max_age_hours
YoungOnDisk ==
    LET c == LoadedCheckpoint(files)
    IN  /\ c.last_full_sync # NoDate
        /\ ~AgeExceeds(Age(c, now), max_age_hours)

\* C15: after a run that stopped before mark_complete, needs_full_sync on the
\* checkpoint loaded from disk answers true, whatever kinds are enabled.
C15_AsStated == StoppedEarly => NeedsOnDisk = "True"

\* C15, what the code guarantees: true when no full sync ever completed.
C15_FirstSync ==
    (StoppedEarly /\ LoadedCheckpoint(files).last_full_sync = NoDate)
        => NeedsOnDisk = "True"

C15_Witness ==
    /\ StoppedEarly
    /\ gen.run = "full"
    /\ include["invoices"]
    /\ LoadedCheckpoint(files).tickets.complete
    /\ ~LoadedCheckpoint(files).invoices.complete
    /\ NeedsOnDisk = "False"

\* C16: after a run that reached mark_complete and saved, with the last full sync
\* younger than max_age_hours, needs_full_sync on the saved checkpoint answers
\* false, whatever kinds are enabled.
C16_AsStated == (gen.pc = "done" /\ YoungOnDisk) => NeedsOnDisk = "False"

\* C16, what the code guarantees: a full sync with customers, assets and tickets
\* all enabled.
C16_ThreeKindsEnabled ==
    (/\ gen.pc = "done"
     /\ gen.run = "full"
     /\ include["customers"] /\ include["assets"] /\ include["tickets"]
     /\ YoungOnDisk) => NeedsOnDisk = "False"

C16_Witness ==
    /\ gen.pc = "done"
    /\ gen.run = "full"
    /\ ~include["tickets"]
    /\ YoungOnDisk
    /\ NeedsOnDisk = "True"

\* the records handed over in this run that the checkpoint on disk at its start
\* had already recorded: those of a completed kind, and the seen ids of the others
Redone ==
    {d \in emittedRun :
        \/ resume[d[1]].complete
        \/ d[2] \in resume[d[1]].seen_ids}

\* C17: a full sync restarted after an interruption hands over no record of a
\* kind saved as complete and no record whose id was saved as seen.
C17_AsStated == (gen.run = "full" /\ gen.restart) => Redone = {}

C17_Witness ==
    /\ gen.run = "full"
    /\ gen.restart
    /\ resume.customers.complete
    /\ \E d \in emittedRun : d[1] = "customers"

\* C18: every batch handed over is saved before the next one is handed over and
\* before the run ends, so at most one batch is ever unrecorded on disk.
C18_AsStated ==
    /\ unsaved <= 1
    /\ gen.pc = "done" => unsaved = 0

\* C18, what the code guarantees: it holds for load_from_state.
C18_FullSync ==
    gen.run = "full" =>
        /\ unsaved <= 1
        /\ gen.pc = "done" => unsaved = 0

C18_Witness ==
    /\ gen.run = "poll"
    /\ InRun
    /\ unsaved = 2

\* the ids the checkpoint on disk records as seen, with their kind
SeenOnDisk ==
    UNION {{<<k, id>> : id \in LoadedCheckpoint(files)[k].seen_ids} : k \in Kinds}

\* C19: every id recorded as seen on disk is of a record already handed over in a
\* batch, or left out by the filter or by a recorded build error.
C19_SeenWasEmitted == SeenOnDisk \subseteq (emitted \cup skipped)

C19_Witness ==
    /\ SeenOnDisk # {}
    /\ SeenOnDisk \cap skipped # {}
    /\ SeenOnDisk \cap emitted # {}
    /\ InRun

\* ------------------------------------------------ connector: batches and errors
RECURSIVE Flatten(_)
\* the concatenation of a sequence of sequences
Flatten(ss) == IF ss = <<>> THEN <<>> ELSE Head(ss) \o Flatten(Tail(ss))

\* the batches of kind k handed over in the run, in order
BatchesOf(k) ==
    LET pick(i) == batches[i][1] = k
        RECURSIVE From(_)
        From(i) == IF i > Len(batches) THEN <<>>
                   ELSE IF pick(i) THEN <<batches[i][2]>> \o From(i + 1)
                   ELSE From(i + 1)
    IN  From(1)

\* the position of kind k in the order of the kinds
KindIndex(k) == CHOOSE i \in 1 .. Len(KindOrder) : KindOrder[i] = k

\* the loader of kind k has returned in the run, or was not called
LoaderReturned(k) ==
    \/ gen.pc = "done"
    \/ /\ InRun
       /\ gen.pc \notin {"save_start", "preload"}
       /\ \/ gen.k > KindIndex(k)
          \/ gen.k = KindIndex(k) /\ gen.pc \in {"loaded", "save_kind"}

\* C24: for batch_size >= 1 and each kind, every batch handed over is non-empty
\* and holds at most batch_size documents, every batch but the last holds exactly
\* batch_size, and the batches put end to end are the documents built, in
\* order: a prefix of them while the loader runs, all of them once it returned.
C24_Batches ==
    \A k \in Kinds :
        LET bs == BatchesOf(k)
            all == Flatten(bs)
        IN  /\ \A i \in 1 .. Len(bs) : Len(bs[i]) \in 1 .. batch_size
            /\ \A i \in 1 .. Len(bs) - 1 : Len(bs[i]) = batch_size
            /\ Len(all) <= Len(built[k])
            /\ all = SubSeq(built[k], 1, Len(all))
            /\ LoaderReturned(k) => all = built[k]

\* three tickets in batches of two: a full batch, then the rest
C24_Witness ==
    /\ gen.pc = "done"
    /\ batch_size = 2
    /\ BatchesOf("tickets") = <<<<1, 2>>, <<3>>>>
    /\ built["tickets"] = <<1, 2, 3>>

\* the record the iterator is at
Current == gen.items[gen.idx]

\* the step is one in which building the document of a record raises
BuildFails ==
    /\ NewRecord
    /\ Outcome(Kind, gen.run, Current) = "error"

\* the failure of the step is recorded and the run goes on without the record
RecordedAndSkipped ==
    /\ cp'.errors = Append(cp.errors, ErrorText(Kind, Current.id))
    /\ <<Kind, Current.id>> \in skipped'
    /\ gen'.batch = gen.batch
    /\ emitted' = emitted
    /\ gen'.pc = "items"

\* C25: a failure to build the document of a record, or of the comments call of
\* a ticket, is recorded in checkpoint.errors, the record is left out and the
\* sync goes on.
C25_AsStated == [][(BuildFails \/ CommentsError) => RecordedAndSkipped]_vars

\* C25, what the code guarantees: it holds for the failures to build a document.
C25_BuildErrors == [][BuildFails => RecordedAndSkipped]_vars

\* the comments call of a ticket raised: the sync is over, nothing is recorded
C25_Witness ==
    /\ gen.pc = "raised"
    /\ ~saveFailed
    /\ cp.errors = <<>>
    /\ \E id \in cp.tickets.seen_ids :
          <<"tickets", id>> \notin emitted \cup skipped

\* C28: when the API answers not-found for the comments of a ticket, the ticket
\* goes into the batch like any other, no error is recorded and the sync goes on.
C28_NotFoundIsEmpty ==
    [][(/\ gen.pc = "items"
        /\ Kind = "tickets"
        /\ gen.idx <= Len(gen.items)
        /\ Current.fate = "nocomments"
        /\ NewRecord)
       => /\ gen'.batch = Append(gen.batch, Current.id)
          /\ cp'.errors = cp.errors
          /\ gen'.pc \in {"items", "yielded"}]_vars

C28_Witness ==
    /\ gen.pc = "done"
    /\ \E p \in 1 .. Len(source.tickets) : \E i \in 1 .. Len(source.tickets[p].ids) :
          /\ source.tickets[p].ids[i].fate = "nocomments"
          /\ <<"tickets", source.tickets[p].ids[i].id>> \in emittedRun
    /\ cp.errors = <<>>

\* the kinds whose complete flag is set in the checkpoint c
CompleteKinds(c) == {k \in Kinds : c[k].complete}

\* C29: during and after load_from_state, a kind whose complete flag is set in
\* the checkpoint had its pagination loop run to the end in this run; a request
\* that raises while a kind is fetched leaves its flag unset.
C29_CompleteMeansTraversed ==
    /\ []((gen.run = "full" /\ gen.pc \notin {"idle", "down"})
            => CompleteKinds(cp) \subseteq traversed)
    /\ [][((ApiError /\ gen.pc = "fetch") \/ CommentsError \/ BuildFails)
            /\ gen.run = "full" => ~cp'[Kind].complete]_vars

\* a second full sync in the same process, stopped in the tickets
C29_Witness ==
    /\ gen.run = "full"
    /\ gen.pc = "raised"
    /\ runs = 2
    /\ resume.tickets.complete
    /\ cp.customers.complete
    /\ ~cp.tickets.complete
    /\ "tickets" \notin traversed

\* C30: reset_for_new_sync sets page, seen ids and complete flag of every kind
\* back, empties the errors, zeroes documents_processed, sets sync_started_at
\* and sync_type, and leaves last_full_sync and last_poll as they were.
C30_ResetFrame ==
    [][(StartFull \/ StartPoll)
       => /\ \A k \in Kinds : cp'[k] = KindFresh
          /\ cp'.errors = <<>>
          /\ cp'.documents_processed = 0
          /\ cp'.sync_started_at = <<now, "utc">>
          /\ cp'.sync_type = gen'.run
          /\ cp'.last_full_sync = cp.last_full_sync
          /\ cp'.last_poll = cp.last_poll]_vars

\* a run starts on a checkpoint that holds progress, errors and both times
C30_Witness ==
    /\ gen.pc \in {"save_start", "preload"}
    /\ cp.last_full_sync # NoDate
    /\ resume.errors # <<>>
    /\ resume.tickets.seen_ids # {}
    /\ resume.customers.complete
    /\ cp.errors = <<>>
    /\ cp.tickets = KindFresh

\* ------------------------------------------------ client: iter_all_*
\* The three iterators share one body; iter_all_tickets alone can fetch the
\* comments of a ticket before it yields it.  The API answers each page request
\* with any page: records may come back on a later page (pagination shifts).

\* A datetime is [set, wall, aware, off]: the hour on the clock face, whether it
\* carries a tzinfo, and the offset of that tzinfo from UTC in hours.  The times
\* tried: the naive ones of every hour, and the last hour in UTC and in a zone
\* TzOffset ahead of it.
Times ==
    {[set |-> TRUE, wall |-> w, aware |-> FALSE, off |-> 0] : w \in 1 .. MaxHour}
    \cup {[set |-> TRUE, wall |-> MaxHour, aware |-> TRUE, off |-> o] :
            o \in {0, TzOffset}}

\* t if t.tzinfo else t.replace(tzinfo=timezone.utc)
AsUtc(d) == IF d.aware THEN d ELSE [d EXCEPT !.aware = TRUE, !.off = 0]

\* the hour in UTC of an aware datetime
Instant(d) == d.wall - d.off

\* the mutant of NotAfter: a record updated at since itself is let through
Before(a, b) == Instant(a) < Instant(b)

\* ticket_time <= since_utc, between aware datetimes
NotAfter(a, b) == Instant(a) <= Instant(b)

\* if since and ticket.updated_at: ... if ticket_time <= since_utc: continue
FilteredOut(updated_at, s) ==
    /\ s.set
    /\ updated_at.set
    /\ NotAfter(AsUtc(updated_at), AsUtc(s))

\* a record of a page: its id and its updated_at
Items == [id : 1 .. MaxIterId, updated_at : Times \cup {NoTime}]

\* the sequences of at most n records
PagesOf(n) == UNION {[1 .. m -> Items] : m \in 0 .. n}

\* the record the iterator is at
Item == it.items[it.idx]

\* seen = seen_ids if seen_ids is not None else set(); page = 1
IterStart ==
    /\ it.pc = "called"
    /\ seen' = IF seen_ids.given THEN seen_ids.ids ELSE {}
    /\ it' = [it EXCEPT !.pc = "fetch", !.page = 1]
    /\ UNCHANGED <<seen_ids, since, fetch_comments, yielded, passed, requests>>
    /\ UNCHANGED <<now, cacheVars, limVars, stateVars, needsVars, connVars,
                   requestVars, builderVars>>

\* response = self.get_<kind>(page=page); an empty page ends the iteration
IterFetch ==
    /\ it.pc = "fetch"
    /\ \E items \in PagesOf(MaxPageLen), total \in 0 .. MaxIterPages :
          /\ it' = IF EmptyPage(items) THEN [NoIter EXCEPT !.pc = "done"]
                   ELSE [it EXCEPT !.pc = "items", !.items = items,
                                   !.total = total, !.idx = 1]
          /\ requests' = Append(requests, [page |-> it.page, count |-> Len(items),
                                           total_pages |-> total])
    /\ UNCHANGED <<seen_ids, since, fetch_comments, seen, yielded, passed>>
    /\ UNCHANGED <<now, cacheVars, limVars, stateVars, needsVars, connVars,
                   requestVars, builderVars>>

\* if record.id in seen: continue
IterSeen ==
    /\ it.pc = "items"
    /\ it.idx <= Len(it.items)
    /\ Item.id \in seen
    /\ passed' = passed \cup {Item.id}
    /\ it' = [it EXCEPT !.idx = @ + 1]
    /\ UNCHANGED <<seen_ids, since, fetch_comments, seen, yielded, requests>>
    /\ UNCHANGED <<now, cacheVars, limVars, stateVars, needsVars, connVars,
                   requestVars, builderVars>>

\* seen.add(record.id); the record is not after since: continue
IterOld ==
    /\ it.pc = "items"
    /\ it.idx <= Len(it.items)
    /\ Item.id \notin seen
    /\ FilteredOut(Item.updated_at, since)
    /\ seen' = SeenAdd(seen, Item.id)
    /\ it' = [it EXCEPT !.idx = @ + 1]
    /\ UNCHANGED <<seen_ids, since, fetch_comments, yielded, passed, requests>>
    /\ UNCHANGED <<now, cacheVars, limVars, stateVars, needsVars, connVars,
                   requestVars, builderVars>>

\* seen.add(record.id); yield record
IterYield ==
    /\ it.pc = "items"
    /\ it.idx <= Len(it.items)
    /\ Item.id \notin seen
    /\ ~FilteredOut(Item.updated_at, since)
    /\ seen' = SeenAdd(seen, Item.id)
    /\ yielded' = Append(yielded, Item.id)
    /\ it' = [it EXCEPT !.idx = @ + 1]
    /\ UNCHANGED <<seen_ids, since, fetch_comments, passed, requests>>
    /\ UNCHANGED <<now, cacheVars, limVars, stateVars, needsVars, connVars,
                   requestVars, builderVars>>

\* seen.add(ticket.id); get_ticket_comments raises: the iteration ends
IterCommentsError ==
    /\ it.pc = "items"
    /\ it.idx <= Len(it.items)
    /\ Item.id \notin seen
    /\ ~FilteredOut(Item.updated_at, since)
    /\ fetch_comments
    /\ seen' = SeenAdd(seen, Item.id)
    /\ it' = [NoIter EXCEPT !.pc = "raised"]
    /\ UNCHANGED <<seen_ids, since, fetch_comments, yielded, passed, requests>>
    /\ UNCHANGED <<now, cacheVars, limVars, stateVars, needsVars, connVars,
                   requestVars, builderVars>>

\* if page >= response.total_pages: break; page += 1
IterPageDone ==
    /\ it.pc = "items"
    /\ it.idx > Len(it.items)
    /\ it' = IF LastPage(it.page, it.total) THEN [NoIter EXCEPT !.pc = "done"]
             ELSE [it EXCEPT !.pc = "fetch", !.page = @ + 1, !.items = <<>>,
                             !.idx = 1]
    /\ UNCHANGED <<seen_ids, since, fetch_comments, seen, yielded, passed,
                   requests>>
    /\ UNCHANGED <<now, cacheVars, limVars, stateVars, needsVars, connVars,
                   requestVars, builderVars>>

\* one call, with any arguments
InitIter ==
    /\ now = 0
    /\ CacheUnused
    /\ LimiterUnused
    /\ StateUnused
    /\ NeedsUnused
    /\ ConnectorUnused
    /\ seen_ids \in {[given |-> FALSE, ids |-> {}]}
                    \cup {[given |-> TRUE, ids |-> s] : s \in SUBSET (1 .. MaxIterId)}
    /\ since \in Times \cup {NoTime}
    /\ fetch_comments \in BOOLEAN
    /\ it = NoIter
    /\ seen = {}
    /\ yielded = <<>>
    /\ passed = {}
    /\ requests = <<>>
    /\ RequestUnused
    /\ BuilderUnused

NextIter ==
    \/ IterStart
    \/ IterFetch
    \/ IterSeen
    \/ IterOld
    \/ IterYield
    \/ IterCommentsError
    \/ IterPageDone

SpecIter == InitIter /\ [][NextIter]_vars

\* the iterator is scheduled until it ends
SpecIterFair == SpecIter /\ WF_vars(NextIter)

\* C20: within one run of an iterator, whatever pages the API answers with, no id
\* is yielded twice and no id of the supplied seen_ids is yielded.
C20_YieldedOnce ==
    /\ \A i, j \in 1 .. Len(yielded) : yielded[i] = yielded[j] => i = j
    /\ \A i \in 1 .. Len(yielded) : yielded[i] \notin seen_ids.ids

\* pages overlapped: an id was yielded and came back, and a supplied id came up
C20_Witness ==
    /\ it.pc = "done"
    /\ Len(yielded) >= 1
    /\ yielded[1] \in passed
    /\ seen_ids.ids \cap passed # {}

\* the last page request made
LastRequest == requests[Len(requests)]

\* C21: a page with no records ends the loop at once: no further page is asked
\* for, whatever total_pages the response reports.
C21_EmptyPageEnds ==
    \A i \in 1 .. Len(requests) :
        requests[i].count = 0 => (i = Len(requests) /\ it.pc = "done")

\* the first page came back empty and reported two pages
C21_Witness ==
    /\ it.pc = "done"
    /\ Len(requests) = 1
    /\ LastRequest.count = 0
    /\ LastRequest.total_pages > LastRequest.page

\* the pages are asked for in the order 1, 2, 3, ..., none beyond the total_pages
\* of the response before it, and the loop is over once a page came back empty
\* or was the last by its own total_pages
PagesInOrder ==
    /\ \A i \in 1 .. Len(requests) : requests[i].page = i
    /\ \A i \in 2 .. Len(requests) : requests[i].page <= requests[i - 1].total_pages
    /\ (it.pc = "fetch" /\ requests # <<>>)
          => (LastRequest.count > 0 /\ LastRequest.page < LastRequest.total_pages)
    /\ it.pc = "fetch" => it.page = Len(requests) + 1

\* C22: the loop asks for the pages 1, 2, 3, ... in order, each once, never one
\* beyond the reported total_pages, is over as soon as a page is empty or the
\* last one, and ends when the reported total_pages are bounded.
C22_PagesInOrder ==
    /\ []PagesInOrder
    /\ <>(it.pc \in {"done", "raised"})

\* two pages were asked for and the second one was the last
C22_Witness ==
    /\ it.pc = "done"
    /\ Len(requests) = MaxIterPages
    /\ LastRequest.count > 0
    /\ LastRequest.page = LastRequest.total_pages

\* the step examines a record the iterator has not seen, and does not end in an
\* error of the comments call
Examined ==
    /\ it.pc = "items"
    /\ it.idx <= Len(it.items)
    /\ Item.id \notin seen
    /\ it'.pc = "items"
    /\ it'.idx = it.idx + 1

\* the step yields the record
Yields == yielded' = Append(yielded, Item.id)

\* updated_at is later than since, both in UTC, a naive time being UTC already
LaterThanSince ==
    LET u == IF Item.updated_at.aware THEN Item.updated_at.wall - Item.updated_at.off
             ELSE Item.updated_at.wall
        t == IF since.aware THEN since.wall - since.off ELSE since.wall
    IN  u > t

\* C23: with a since filter, a record not seen before that has an updated_at is
\* yielded iff its updated_at is later than since, both taken in UTC and a naive
\* time counting as UTC; a record without updated_at is always yielded.
C23_SinceFilter ==
    [][Examined /\ since.set =>
          /\ Item.updated_at.set => (Yields <=> LaterThanSince)
          /\ ~Item.updated_at.set => Yields]_vars

\* a naive updated_at and an aware since with an offset, the same instant in UTC:
\* the record was left out; a record without updated_at was yielded
C23_Witness ==
    /\ since.set /\ since.aware /\ since.off = TzOffset
    /\ it.pc = "items"
    /\ it.idx = 3
    /\ it.items[1].id # it.items[2].id
    /\ it.items[1].updated_at.set /\ ~it.items[1].updated_at.aware
    /\ it.items[1].updated_at.wall = since.wall - since.off
    /\ ~it.items[2].updated_at.set
    /\ seen_ids.ids = {}
    /\ yielded = <<it.items[2].id>>

\* ------------------------------------------------ checkpoint.errors in a long sync
\* A sync in which the documents of many tickets fail to build: every failure is
\* appended to checkpoint.errors and the checkpoint is saved now and then.
\* skipped holds the tickets that failed so far.

\* except Exception as e: self.checkpoint.errors.append(f"Ticket {ticket.id}: {e}")
RecordFailure ==
    /\ Cardinality(skipped) < MaxFailures
    /\ LET id == Cardinality(skipped) + 1
       IN  /\ cp' = [cp EXCEPT !.errors = Append(@, ErrorText("tickets", id))]
           /\ skipped' = skipped \cup {<<"tickets", id>>}
    /\ UNCHANGED <<now, files, gen, emitted, emittedRun, unsaved, saveFailed,
                   resume, interrupted, runs, syncFixed, traversed, batches, built>>

\* _save_checkpoint() after a batch
SaveErrors ==
    /\ files' = SavedFiles(files, cp)
    /\ UNCHANGED <<now, cp, gen, emitted, emittedRun, skipped, unsaved, saveFailed,
                   resume, interrupted, runs, syncFixed, traversed, batches, built>>

InitErrors ==
    /\ now = 0
    /\ CacheUnused
    /\ LimiterUnused
    /\ StateUnused
    /\ NeedsUnused
    /\ ConnectorUnused
    /\ IterUnused
    /\ RequestUnused
    /\ BuilderUnused

NextErrors ==
    \/ RecordFailure
    \/ SaveErrors

SpecErrors == InitErrors /\ [][NextErrors]_vars

\* the error strings of the failures a to b, in order
FailureTexts(a, b) == [i \in 1 .. (b - a + 1) |-> ErrorText("tickets", a + i - 1)]

\* the errors e are the n most recent ones at some point of the sync
MostRecent(e, n) ==
    \E last \in 0 .. MaxFailures :
        e = FailureTexts(IF last > n THEN last - n + 1 ELSE 1, last)

\* C26: checkpoint.errors never holds more than 100 entries.
C26_AsStated == Len(cp.errors) <= ErrorsKept

\* C26, what the code guarantees: the errors written to disk are at most 100, the
\* most recent ones in order.
C26_OnDisk ==
    /\ Len(LoadedCheckpoint(files).errors) <= ErrorsKept
    /\ MostRecent(LoadedCheckpoint(files).errors, ErrorsKept)

\* 101 failures: all of them are in checkpoint.errors, the last 100 on disk
C26_Witness ==
    /\ Len(cp.errors) = ErrorsKept + 1
    /\ cp.errors = FailureTexts(1, ErrorsKept + 1)
    /\ LoadedCheckpoint(files).errors = FailureTexts(2, ErrorsKept + 1)

\* ------------------------------------------------ client: _make_request
\* One call of _make_request.  An attempt meets a response with a status and a
\* body that parses as JSON or not, or the transport fails, or it times out.
Statuses == {200, 400, 401, 403, 404, 429, 500, 503}

Outcomes ==
    [kind : {"response"}, status : Statuses, json : {TRUE}]
    \cup {[kind |-> "response", status |-> 200, json |-> FALSE],
          [kind |-> "transport", status |-> 0, json |-> FALSE],
          [kind |-> "timeout", status |-> 0, json |-> FALSE]}

\* what _do_request raises for the outcome o, "none" when it returns the JSON
ExceptionOf(o) ==
    CASE o.kind = "transport" -> "httpx.TransportError"
      [] o.kind = "timeout" -> "httpx.TimeoutException"
      [] o.status = 429 -> "RepairShoprRateLimitError"
      [] o.status \in {401, 403} -> "RepairShoprAuthError"
      [] o.status = 404 -> "RepairShoprNotFoundError"
      [] o.status >= 500 -> "RepairShoprServerError"
      [] o.status >= 400 -> "RepairShoprAPIError"
      [] ~o.json -> "RepairShoprAPIError"
      [] OTHER -> "none"

\* the status branches of _do_request count the error; the others do not
CountsError(o) == o.kind = "response" /\ o.status >= 400

\* is_retryable_error
IsRetryableError(exc) ==
    exc \in {"RepairShoprRateLimitError", "RepairShoprServerError",
             "httpx.TransportError", "httpx.TimeoutException"}

\* the mutant of StopAfterAttempt: one attempt more is made
StopAfterOneMore(attempt, max_attempts) == attempt > max_attempts

\* tenacity.stop_after_attempt(max_attempts), asked after attempt number attempt
StopAfterAttempt(attempt, max_attempts) == attempt >= max_attempts

\* _make_request is called: the first attempt is due
CallMakeRequest ==
    /\ rq.pc = "idle"
    /\ rq' = [rq EXCEPT !.pc = "try", !.attempt = 1]
    /\ UNCHANGED <<max_retries, attempts>>
    /\ UNCHANGED <<now, cacheVars, limVars, stateVars, needsVars, connVars, iterVars,
                   builderVars>>

\* the mutant of AcquiresToken: only the first attempt of a call acquires
AcquiresTokenOnce(attempt) == attempt = 1

\* self.rate_limiter.acquire() is the first statement of _do_request, the
\* function that is retried: every attempt runs it
AcquiresToken(attempt) == TRUE

\* _do_request: self.rate_limiter.acquire(), by the one caller there is. The
\* call refills and takes a token, after sleeping for wait_time when there was
\* none
RateLimit ==
    /\ rq.pc = "try"
    /\ IF AcquiresToken(rq.attempt)
       THEN LET tok == Refilled(tokens, now - last_refill)
                wait == IF tok >= TicksPerToken THEN 0 ELSE WaitTime(tok)
            IN  /\ now' = now + wait
                /\ last_refill' = RefillStamp(now')
                /\ tokens' = Consume(Refilled(tokens, now' - last_refill))
                /\ requests_made' = requests_made + 1
                /\ true_calls' = true_calls + 1
                /\ requests_throttled' = IF wait > 0 THEN requests_throttled + 1
                                         ELSE requests_throttled
                /\ throttled_calls' = IF wait > 0 THEN throttled_calls + 1
                                      ELSE throttled_calls
                /\ total_wait_time' = total_wait_time + wait
       ELSE UNCHANGED <<now, last_refill, tokens, requests_made,
                        requests_throttled, total_wait_time, limCalls>>
    /\ rq' = [rq EXCEPT !.pc = "send"]
    /\ UNCHANGED <<capacity, limLock, lim, lret, acquires>>
    /\ UNCHANGED <<max_retries, attempts>>
    /\ UNCHANGED <<cacheVars, stateVars, needsVars, connVars, iterVars, builderVars>>

\* _do_request sends the request and gets a response it can return
AttemptReturns ==
    /\ rq.pc = "send"
    /\ \E o \in Outcomes :
          /\ ExceptionOf(o) = "none"
          /\ attempts' = Append(attempts, o)
          /\ rq' = [rq EXCEPT !.pc = "returned", !.request_count = @ + 1]
    /\ UNCHANGED max_retries
    /\ UNCHANGED <<now, cacheVars, limVars, stateVars, needsVars, connVars, iterVars,
                   builderVars>>

\* _do_request sends the request and raises: the exception is re-raised when
\* it is not retryable or the attempts are used up, otherwise the call sleeps
\* before the next attempt
AttemptRaises ==
    /\ rq.pc = "send"
    /\ \E o \in Outcomes :
          LET exc == ExceptionOf(o)
              over == ~IsRetryableError(exc)
                        \/ StopAfterAttempt(rq.attempt, max_retries)
          IN  /\ exc # "none"
              /\ attempts' = Append(attempts, o)
              /\ rq' = [rq EXCEPT !.pc = IF over THEN "raised" ELSE "sleep",
                                  !.exc = exc,
                                  !.request_count = @ + 1,
                                  !.error_count = IF CountsError(o) THEN @ + 1 ELSE @]
    /\ UNCHANGED max_retries
    /\ UNCHANGED <<now, cacheVars, limVars, stateVars, needsVars, connVars, iterVars,
                   builderVars>>

\* the wait of wait_exponential is over, a time that is short or long against
\* 1 / rate: the next attempt is due
NextAttempt ==
    /\ rq.pc = "sleep"
    /\ \E w \in 0 .. TicksPerToken : now' = now + w
    /\ rq' = [rq EXCEPT !.pc = "try", !.attempt = @ + 1]
    /\ UNCHANGED <<max_retries, attempts>>
    /\ UNCHANGED <<cacheVars, limVars, stateVars, needsVars, connVars, iterVars,
                   builderVars>>

\* a client with max_retries of at least one
InitRequest ==
    /\ now = 0
    /\ CacheUnused
    /\ LimiterUnused
    /\ StateUnused
    /\ NeedsUnused
    /\ ConnectorUnused
    /\ IterUnused
    /\ BuilderUnused
    /\ max_retries \in 1 .. MaxRetries
    /\ rq = NoRequest
    /\ attempts = <<>>

NextRequest ==
    \/ CallMakeRequest
    \/ RateLimit
    \/ AttemptReturns
    \/ AttemptRaises
    \/ NextAttempt

SpecRequest == InitRequest /\ [][NextRequest]_vars

\* the attempt met a 429, a 5xx, a transport error or a timeout
Transient(o) ==
    \/ o.kind \in {"transport", "timeout"}
    \/ o.kind = "response" /\ (o.status = 429 \/ o.status \in 500 .. 599)

\* the attempt met a response the call can return
Good(o) == o.kind = "response" /\ o.status < 400 /\ o.json

\* C27: for max_retries >= 1, a call makes at most max_retries attempts; every
\* attempt that was followed by another met a 429, a 5xx, a transport error or a
\* timeout; any other failure is raised right after its attempt; and when the
\* attempts are used up the error of the last one is raised.
C27_BoundedRetries ==
    /\ Len(attempts) <= max_retries
    /\ \A i \in 1 .. Len(attempts) - 1 : Transient(attempts[i])
    /\ attempts # <<>> =>
          LET last == attempts[Len(attempts)]
          IN  /\ Good(last) <=> rq.pc = "returned"
              /\ (~Good(last) /\ ~Transient(last)) =>
                    (rq.pc = "raised" /\ rq.exc = ExceptionOf(last))
              /\ (Transient(last) /\ Len(attempts) = max_retries) =>
                    (rq.pc = "raised" /\ rq.exc = ExceptionOf(last))
              /\ (Transient(last) /\ Len(attempts) < max_retries) =>
                    rq.pc \in {"sleep", "try", "send"}

\* a 503 and a timeout were retried, the third attempt got a 429 and raised it
C27_Witness ==
    /\ max_retries = 3
    /\ Len(attempts) = 3
    /\ attempts[1].status = 503
    /\ attempts[2].kind = "timeout"
    /\ attempts[3].status = 429
    /\ rq.pc = "raised"
    /\ rq.exc = "RepairShoprRateLimitError"

\* ------------------------------------------------ document ids
\* Strings are sequences of characters, so that concatenation and the decimal
\* form of an integer are computed as Python computes them.
DOC_PREFIX_TICKET == <<"r", "s", "_", "t", "i", "c", "k", "e", "t", "_">>
DOC_PREFIX_CUSTOMER == <<"r", "s", "_", "c", "u", "s", "t", "o", "m", "e", "r", "_">>
DOC_PREFIX_ASSET == <<"r", "s", "_", "a", "s", "s", "e", "t", "_">>
DOC_PREFIX_INVOICE == <<"r", "s", "_", "i", "n", "v", "o", "i", "c", "e", "_">>

Digits == <<"0", "1", "2", "3", "4", "5", "6", "7", "8", "9">>

RECURSIVE Decimal(_)
\* the decimal digits of n >= 0
Decimal(n) ==
    IF n < 10 THEN <<Digits[n + 1]>>
    ELSE Decimal(n \div 10) \o <<Digits[(n % 10) + 1]>>

\* format(n) of an int inside an f-string
Str(n) == IF n < 0 THEN <<"-">> \o Decimal(0 - n) ELSE Decimal(n)

\* the prefix build_<kind>_document puts before the id
DocPrefix(kind) ==
    CASE kind = "tickets" -> DOC_PREFIX_TICKET
      [] kind = "customers" -> DOC_PREFIX_CUSTOMER
      [] kind = "assets" -> DOC_PREFIX_ASSET
      [] kind = "invoices" -> DOC_PREFIX_INVOICE

\* the mutant of DocumentId: the id without the prefix of its kind
DocumentIdBare(kind, id) == Str(id)

\* id=f"{DOC_PREFIX_...}{record.id}"
DocumentId(kind, id) == DocPrefix(kind) \o Str(id)

\* the integer ids of the records built
RecordIds == (0 - 1) .. MaxDocId

\* build_ticket_document / _customer_ / _asset_ / _invoice_: the id of the
\* document built for a record
BuildDocument ==
    /\ Len(doc_log) < MaxBuilt
    /\ \E kind \in Kinds, id \in RecordIds :
          doc_log' = Append(doc_log, [kind |-> kind, id |-> id,
                                      doc |-> DocumentId(kind, id)])
    /\ UNCHANGED <<now, cacheVars, limVars, stateVars, needsVars, connVars,
                   iterVars, requestVars>>

InitBuilder ==
    /\ now = 0
    /\ CacheUnused
    /\ LimiterUnused
    /\ StateUnused
    /\ NeedsUnused
    /\ ConnectorUnused
    /\ IterUnused
    /\ RequestUnused
    /\ doc_log = <<>>

NextBuilder == BuildDocument

SpecBuilder == InitBuilder /\ [][NextBuilder]_vars

\* s begins with the characters of p
StartsWith(s, p) == Len(s) >= Len(p) /\ SubSeq(s, 1, Len(p)) = p

\* s is the decimal form of the integer n
IsDecimalOf(s, n) ==
    LET neg == s # <<>> /\ s[1] = "-"
        ds == IF neg THEN SubSeq(s, 2, Len(s)) ELSE s
        Val(c) == (CHOOSE i \in 1 .. 10 : Digits[i] = c) - 1
        Num[k \in 0 .. Len(ds)] ==
            IF k = 0 THEN 0 ELSE 10 * Num[k - 1] + Val(ds[k])
    IN  /\ ds # <<>>
        /\ \A k \in 1 .. Len(ds) : \E i \in 1 .. 10 : Digits[i] = ds[k]
        /\ n = IF neg THEN 0 - Num[Len(ds)] ELSE Num[Len(ds)]

\* C31: every document id is the prefix of its kind followed by the decimal
\* form of the record's id; the same record gets the same document id, and two
\* records that differ in kind or in id get different document ids.
C31_DocumentIds ==
    /\ \A i \in 1 .. Len(doc_log) :
          LET d == doc_log[i]
          IN  /\ StartsWith(d.doc, DocPrefix(d.kind))
              /\ IsDecimalOf(SubSeq(d.doc, Len(DocPrefix(d.kind)) + 1, Len(d.doc)),
                             d.id)
    /\ \A i, j \in 1 .. Len(doc_log) :
          (doc_log[i].doc = doc_log[j].doc)
            <=> (doc_log[i].kind = doc_log[j].kind /\ doc_log[i].id = doc_log[j].id)

\* ticket 12 and customer 12 were built: the same integer id, two document ids
C31_Witness ==
    /\ Len(doc_log) = 2
    /\ doc_log[1].kind = "tickets" /\ doc_log[1].id = 12
    /\ doc_log[2].kind = "customers" /\ doc_log[2].id = 12
    /\ doc_log[1].doc = DOC_PREFIX_TICKET \o <<"1", "2">>
    /\ doc_log[2].doc = DOC_PREFIX_CUSTOMER \o <<"1", "2">>

\* ------------------------------------------------ the "last success" stamps
\* the step is one of the running process (not its stop, nor its start, which
\* drop and load the whole checkpoint object)
ProcessRuns == gen.pc # "down" /\ gen'.pc # "down"

\* every enabled kind's pagination ran to its end in the run going on
EnabledTraversed == \A k \in Kinds : include[k] => k \in traversed

\* the step is mark_complete() at the end of a run of the given type
MarksEndOf(run) == gen.pc = "mark" /\ gen.run = run /\ gen'.pc = "save_final"

\* the two stamps of the checkpoint in memory
InMemory(c) == [last_full_sync |-> c.last_full_sync, last_poll |-> c.last_poll]

\* the two stamps in the state file
OnDisk(fs) == [last_full_sync |-> LoadedCheckpoint(fs).last_full_sync,
               last_poll |-> LoadedCheckpoint(fs).last_poll]

\* C32: while the process runs, a step changes checkpoint.last_full_sync only
\* if it is mark_complete() at the end of load_from_state, after every enabled
\* kind was loaded, and it leaves last_poll alone; a step changes last_poll
\* only if it is mark_complete() at the end of poll_source, and it leaves
\* last_full_sync alone.  The stamps in the state file change only in a
\* _save_checkpoint(), to the stamps of the checkpoint in memory.
C32_StampsOnlyAtEnd ==
    [][/\ (ProcessRuns /\ cp'.last_full_sync # cp.last_full_sync) =>
             (MarksEndOf("full") /\ EnabledTraversed
                /\ cp'.last_poll = cp.last_poll)
       /\ (ProcessRuns /\ cp'.last_poll # cp.last_poll) =>
             (MarksEndOf("poll") /\ EnabledTraversed
                /\ cp'.last_full_sync = cp.last_full_sync)
       /\ (OnDisk(files') # OnDisk(files)) =>
             (gen.pc \in SavePcs /\ OnDisk(files') = InMemory(cp))]_vars

\* a full sync completed at hour 0 and a poll at hour 1: each stamped its own
C32_Witness ==
    /\ gen.pc = "done"
    /\ gen.run = "poll"
    /\ cp.last_full_sync = <<0, "utc">>
    /\ cp.last_poll = <<1, "utc">>
    /\ OnDisk(files) = [last_full_sync |-> <<0, "utc">>, last_poll |-> <<1, "utc">>]

\* ------------------------------------------------ requests and tokens
\* C33: every attempt sent was preceded by its own acquire(): the acquires that
\* returned are as many as the attempts sent, plus the one of the attempt about
\* to be sent; and the attempts sent never exceed the tokens the bucket has
\* given out, capacity + rate * now at most.
C33_AcquireBeforeSend ==
    /\ Len(attempts) <= requests_made
    /\ requests_made = Len(attempts) + (IF rq.pc = "send" THEN 1 ELSE 0)
    /\ tokens >= 0
    /\ Len(attempts) * TicksPerToken <= capacity * TicksPerToken + now

\* the bucket of one token was empty after the first attempt: the retry slept in
\* acquire() for a token before it was sent, and the third attempt did so too
C33_Witness ==
    /\ Len(attempts) = 3
    /\ requests_made = 3
    /\ requests_throttled = 2
    /\ capacity = 1
    /\ rq.pc = "raised"

\* ------------------------------------------------ rate limiter: sleeping
\* the acquire call of t is between the end of its locked block and the end of
\* its sleep
Waiting(t) == lim[t].pc \in {"throttle", "stat", "sleep"}

\* C34: a caller that is about to sleep or sleeping does not hold the lock, and
\* whoever holds it is inside the locked block; when a sleep ends the caller
\* goes back to the top of the loop and has taken nothing; and an acquire
\* returns True only from the locked block, after a refill that left a token.
C34_SleepOutsideLock ==
    [][/\ \A t \in Threads :
             /\ Waiting(t)' => limLock' # t
             /\ limLock' = t => lim'[t].pc \in {"locked", "deadline"}
             /\ (lim[t].pc = "sleep" /\ lim'[t].pc # "sleep") =>
                   /\ lim'[t].pc = "lock"
                   /\ tokens' = tokens
                   /\ requests_made' = requests_made
                   /\ lret'[t] = lret[t]
             /\ (lim[t].pc # "idle" /\ lim'[t].pc = "idle" /\ lim[t].op = "acquire"
                   /\ lret'[t] = "True") =>
                   /\ lim[t].pc = "locked"
                   /\ limLock = t
                   /\ Refilled(tokens, now - last_refill) >= TicksPerToken]_vars

\* while one caller sleeps, the other holds the lock and is about to run the
\* refill-and-check cycle with a token to take
C34_Witness ==
    \E t, u \in Threads :
        /\ lim[t].pc = "sleep"
        /\ lim[t].op = "acquire"
        /\ now < lim[t].wake
        /\ lim[u].pc = "locked"
        /\ lim[u].op = "acquire"
        /\ limLock = u
        /\ Refilled(tokens, now - last_refill) >= TicksPerToken

\* ------------------------------------------------ rate limiter: termination
\* the time by which every sleep of every call has ended: each call sleeps at
\* most once more than there are other calls, for 1 / rate at most
LimLateTime == LimMaxTime + MaxAcquires * MaxAcquires * TicksPerToken

\* Time goes on for a caller that sleeps, also after the time the limiter is
\* otherwise followed over.
SleepTick ==
    /\ now >= LimMaxTime
    /\ now < LimLateTime
    /\ \E t \in Threads : lim[t].pc = "sleep" /\ now < lim[t].wake
    /\ now' = now + 1
    /\ UNCHANGED <<cacheVars, limVars, stateVars, needsVars, connVars, iterVars,
                   requestVars, builderVars>>

\* the steps of the call of t that is in progress
LimStep(t) ==
    \/ LimAcquireLock(t)
    \/ AcquireBody(t)
    \/ DeadlineCheck(t)
    \/ ThrottleRead(t)
    \/ ThrottleWrite(t)
    \/ Wake(t)
    \/ AvailableTokensBody(t)

\* callers that only call acquire() without a timeout
NextLimiterFair ==
    \/ \E t \in Threads : CallAcquire(t)
    \/ \E t \in Threads : LimAcquireLock(t)
    \/ \E t \in Threads : AcquireBody(t)
    \/ \E t \in Threads : ThrottleRead(t)
    \/ \E t \in Threads : ThrottleWrite(t)
    \/ \E t \in Threads : Wake(t)
    \/ ClockTick
    \/ SleepTick

\* a bucket of one token: the second caller has to wait
InitLimiterFair == InitLimiterSpec /\ capacity = 1

\* every thread that can take a step of its call takes one, and time advances
SpecLimiterFair ==
    /\ InitLimiterFair
    /\ [][NextLimiterFair]_vars
    /\ \A t \in Threads : WF_vars(LimStep(t))
    /\ WF_vars(ClockTick \/ SleepTick)

\* the acquire call of t, made without a timeout, is in progress
Acquiring(t) == lim[t].op = "acquire" /\ ~lim[t].timed /\ lim[t].pc # "idle"

\* C35: every acquire() made without a timeout returns True in the end, whatever
\* the other callers do.
C35_AcquireReturns ==
    \A t \in Threads : Acquiring(t) ~> (ReturnedTrue(t) /\ ~lim[t].timed)

\* an acquire without a timeout has returned True after it slept twice: the
\* token it first waited for was taken by the other caller
C35_Witness ==
    \E t \in Threads :
        /\ ReturnedTrue(t)
        /\ ~lim[t].timed
        /\ lim[t].slept = 2
        /\ requests_made = MaxAcquires

\* ------------------------------------------------ rate limiter: statistics
\* C36 as stated: requests_throttled is the number of acquire calls that have
\* slept at least once, and requests_made the number of acquire calls that have
\* returned True.
C36_AsStated ==
    /\ requests_throttled = throttled_calls
    /\ requests_made = true_calls

\* what holds of the two counters: requests_made is the number of acquire calls
\* that have returned True, and requests_throttled is zero exactly as long as
\* no call has slept.
C36_MadeIsExact ==
    /\ requests_made = true_calls
    /\ (throttled_calls = 0) <=> (requests_throttled = 0)

\* one call slept twice, the token it waited for first having been taken by the
\* other caller, and no other call slept: requests_throttled is 2 for one
\* acquisition that had to sleep
C36_Witness ==
    /\ throttled_calls = 1
    /\ requests_throttled = 2
    /\ requests_made = true_calls
    /\ \E t \in Threads : lim[t].slept = 2

\* ------------------------------------------------ cache: statistics
\* the mutant of Round: the digits after the last one kept are cut off
RoundDown(n, d) == n \div d

\* round(n / d): to the nearest integer, a tie to the even one
Round(n, d) ==
    LET q == n \div d
        r == n % d
    IN  IF 2 * r < d THEN q
        ELSE IF 2 * r > d THEN q + 1
        ELSE IF q % 2 = 0 THEN q ELSE q + 1

\* get_stats()["hit_rate"], in 1/HitRateScale
HitRate(h, m) == IF h + m > 0 THEN Round(h * HitRateScale, h + m) ELSE 0

\* a step counts as the claim says: the body of a get adds one to exactly one of
\* hits and misses, no other step changes them; the body of a set adds to
\* evictions the number of other keys it removed, no other step changes it
CountsAsStated ==
    /\ \A t \in Threads :
          GetBody(t) => /\ hits' + misses' = hits + misses + 1
                        /\ hits' = hits \/ misses' = misses
                        /\ hits' >= hits /\ misses' >= misses
    /\ (\A t \in Threads : ~GetBody(t)) => (hits' = hits /\ misses' = misses)
    /\ \A t \in Threads :
          SetBody(t) =>
              evictions' = evictions
                            + Cardinality(CacheKeys(cache) \ CacheKeys(cache'))
    /\ (\A t \in Threads : ~SetBody(t)) => evictions' = evictions

\* C37 as stated: the counters count as said, and hit_rate is hits / (hits +
\* misses), 0 when there were no accesses.
C37_AsStated ==
    [][/\ CountsAsStated
       /\ HitRate(hits', misses') * (hits' + misses') = hits' * HitRateScale]_vars

\* C37 amended: the counters count as said, and hit_rate is hits / (hits +
\* misses) rounded to four decimal places, 0 when there were no accesses.
C37_Stats ==
    [][/\ CountsAsStated
       /\ LET total == hits' + misses'
              diff == HitRate(hits', misses') * total - hits' * HitRateScale
          IN  /\ total = 0 => HitRate(hits', misses') = 0
              /\ 2 * diff <= total
              /\ 2 * (0 - diff) <= total]_vars

\* a get_or_load missed and stored its value, `key in cache` then hit it, and
\* another get missed: one hit in three accesses is reported as 0.3333
C37_Witness ==
    /\ hits = 1
    /\ misses = 2
    /\ HitRate(hits, misses) = 3333
    /\ \E t \in Threads : ret[t] = "True"

\* ------------------------------------------------ cache: set on a present key
\* the body of the set of t is about to run on a key that is stored
SetOnPresentDue(t) == Locked(t, "set") /\ Top(t).key \in CacheKeys(cache)

\* C38: the body of a set on a key that is stored leaves the number of entries
\* and the other entries as they are, in their order, and evictions unchanged,
\* also at capacity; the key becomes the most recently used entry, with the
\* value and the expiry time of this call.
C38_SetOnPresentKey ==
    [][\A t \in Threads :
          (SetOnPresentDue(t) /\ SetBody(t)) =>
              /\ Len(cache') = Len(cache)
              /\ CacheKeys(cache') = CacheKeys(cache)
              /\ evictions' = evictions
              /\ Remove(cache', Top(t).key) = Remove(cache, Top(t).key)
              /\ cache'[Len(cache')] = [key |-> Top(t).key, value |-> Top(t).val,
                                        expires_at |-> Top(t).at]
              /\ ttl_seconds = 0 => cache'[Len(cache')].expires_at = Inf
              /\ ttl_seconds > 0 =>
                    /\ cache'[Len(cache')].expires_at <= now + ttl_seconds
                    /\ cache'[Len(cache')].expires_at >= ttl_seconds]_vars

\* a full cache of two entries after three sets: key 1 was set again by the
\* other thread, it has the new value and is the most recently used, key 2 is
\* still there and nothing was evicted
C38_Witness ==
    /\ max_size = 2
    /\ Len(cache) = 2
    /\ calls = 3
    /\ hits + misses = 0
    /\ evictions = 0
    /\ cache[1].key = 2 /\ cache[1].value = "a"
    /\ cache[2].key = 1 /\ cache[2].value = "b"
    /\ \A t \in Threads : stk[t] = <<>>

\* ------------------------------------------------ connector: the preload
Preloaded == {"customers", "assets"}

\* C39: _preload_enrichment_data() leaves the checkpoint as it is; when the
\* loader of customers or of assets starts, the checkpoint's seen ids of that
\* kind are empty; and when that loader returns, every record of the kind that
\* is not filtered out and whose document builds has been emitted in this run.
C39_PreloadLeavesCheckpoint ==
    [][/\ (gen.pc = "preload" /\ gen'.pc = "kind") => cp' = cp
       /\ \A k \in Preloaded :
             /\ (gen.pc = "kind" /\ gen'.pc = "fetch" /\ KindOrder[gen'.k] = k) =>
                   cp'[k].seen_ids = {}
             /\ (gen.pc # "loaded" /\ gen'.pc = "loaded" /\ KindOrder[gen'.k] = k) =>
                   \A r \in SourceRecs(k) :
                       Outcome(k, gen'.run, r) = "ok" => <<k, r.id>> \in emittedRun']_vars

\* the loader of customers has returned in a full sync: the customer, which the
\* preload had gone through, was emitted, and only then became a seen id
C39_Witness ==
    /\ gen.pc = "loaded"
    /\ gen.run = "full"
    /\ Kind = "customers"
    /\ <<"customers", 1>> \in emittedRun
    /\ cp.customers.seen_ids = {1}
    /\ cp.assets.seen_ids = {}

\* ------------------------------------------------ connector: documents_processed
\* the documents of the batches handed over in the run, end to end
EmittedDocs == Flatten([i \in 1 .. Len(batches) |-> batches[i][2]])

\* the documents appended to the batch being accumulated and not handed over yet
Pending == IF gen.pc \in {"yielded", "yielded_tail"} THEN 0 ELSE Len(gen.batch)

\* C40: during a sync documents_processed is the number of documents of the
\* batches handed over plus those of the batch being accumulated; when the sync
\* has completed it is the number of documents handed over; and a record whose
\* build fails adds one entry to errors and nothing to documents_processed.
C40_DocumentsProcessed ==
    [][/\ InRun' => cp'.documents_processed = Len(EmittedDocs') + Pending'
       /\ gen'.pc = "done" => cp'.documents_processed = Len(EmittedDocs')
       /\ BuildFails =>
             /\ Len(cp'.errors) = Len(cp.errors) + 1
             /\ cp'.documents_processed = cp.documents_processed
             /\ EmittedDocs' = EmittedDocs
             /\ Pending' = Pending]_vars

\* a full sync has completed with four documents handed over and two records
\* whose build failed
C40_Witness ==
    /\ gen.pc = "done"
    /\ gen.run = "full"
    /\ cp.documents_processed = 4
    /\ Len(EmittedDocs) = 4
    /\ Len(cp.errors) = 2

====
